---- MODULE Spec2Model ----
(***************************************************************************)
(* Model of the geometry core of qto_buccaneer/visualization.py:          *)
(*   - IFCGeometryParameterParser.extract_object_placement (placement     *)
(*     chain walk) and get_placement_matrix,                              *)
(*   - IFCGeometryParameterParser.extract_profile_def,                    *)
(*   - MeshGenerator.extrude_profile / create_mesh_from_geometry_data,    *)
(*   - PlotlyVisualizer.add_element and apply_boolean_difference,         *)
(*   - IFCGeometryParameterParser.extract_element_geometry and            *)
(*     get_openings_for_element,                                          *)
(*   - the batch: parse_all_elements_with_geometry followed by the        *)
(*     add_element loop of visualize_ifc_with_trimesh.                    *)
(*                                                                         *)
(* Coordinates are integers.  Directions are drawn from vectors whose     *)
(* Euclidean norm is an integer dividing every component (axis-aligned    *)
(* vectors and the zero vector), for which v / ||v|| is exact.            *)
(* An IFC attribute that is None is written <<>>.                          *)
(***************************************************************************)
EXTENDS Integers, Sequences, FiniteSets, TLC

VARIABLES
    pc,             \* position of the running call
    element,        \* the IFC element handed to extract_object_placement
    placement,      \* extract_object_placement: index of the current link, 0 = None
    total_matrix,   \* extract_object_placement: the accumulated 4x4 matrix
    returned,       \* matrices returned by the successive calls, in call order
    walked,         \* loop heads (placement, total_matrix) the current walk has passed
    profile,        \* the IfcProfileDef handed to extract_profile_def (<<>> = None)
    result,         \* the dict returned by extract_profile_def
    solid_geom,     \* the dict handed to create_mesh_from_geometry_data
    polygon_built,  \* extrude_profile: Polygon(profile_2d) has been called
    elem_data,      \* add_element: the element record being added
    opening_meshes, \* add_element: meshes synthesized for the openings
    work,           \* add_element: loop positions (opening, opening solid, host solid)
    mesh,           \* add_element: the host mesh in hand (<<>> = None)
    result_mesh,    \* apply_boolean_difference: the running host
    tool_meshes,    \* apply_boolean_difference: the tool list of the running call
    tool_idx,       \* apply_boolean_difference: index of the next tool
    attempts,       \* log of the difference() calls: host, tool, outcome
    exported,       \* add_element: elements_data_for_export / traces added
    extracted,      \* extract_element_geometry: the result dict under construction
    item_idx,       \* extract_element_geometry: index of the next item of shape_rep.Items
    batch,          \* the elements of the IFC model in the order the batch visits them
    batch_idx,      \* index of the next element of the running batch loop
    elements_data,  \* parse_all_elements_with_geometry: the list it returns
    added,          \* GlobalIds of the elements add_element has completed for
    viewer,         \* colab_viewer.visualize_ifc: arguments, loop position, value returned
    table_ui,       \* HierarchicalTableUI with its Visualizer3D: visibility, traces, filters
    gradio,         \* GradioIFCViewer.launch: filter values, displayed table, states
    xform           \* GeometryExtractor.transform_coordinates: arguments and result

placementVars == <<element, placement, total_matrix, returned, walked>>
profileVars == <<profile, result, solid_geom, polygon_built>>
meshVars == <<elem_data, opening_meshes, work, mesh, result_mesh, tool_meshes,
              tool_idx, attempts, exported>>
extractVars == <<extracted, item_idx>>
batchVars == <<batch, batch_idx, elements_data, added>>
viewerVars == <<viewer, table_ui, gradio, xform>>
vars == <<pc, placementVars, profileVars, meshVars, extractVars, batchVars, viewerVars>>

None == <<>>

----------------------------------------------------------------------------
(* Bounds of the model *)

MaxChain == 3     \* longest placement chain
MaxCalls == 2     \* calls of extract_object_placement on one element

----------------------------------------------------------------------------
(* numpy helpers: 3-vectors are <<x, y, z>>, matrices are tuples of rows *)

Abs(x) == IF x < 0 THEN -x ELSE x

eye4 == << <<1, 0, 0, 0>>, <<0, 1, 0, 0>>, <<0, 0, 1, 0>>, <<0, 0, 0, 1>> >>

matmul(A, B) ==
    [i \in 1..4 |-> [j \in 1..4 |->
        A[i][1] * B[1][j] + A[i][2] * B[2][j] + A[i][3] * B[3][j] + A[i][4] * B[4][j]]]

cross(a, b) ==
    << a[2] * b[3] - a[3] * b[2],
       a[3] * b[1] - a[1] * b[3],
       a[1] * b[2] - a[2] * b[1] >>

NormSq(v) == v[1] * v[1] + v[2] * v[2] + v[3] * v[3]

\* np.linalg.norm on the model's directions (NormSq is a perfect square)
norm(v) == CHOOSE n \in 0..NormSq(v) : n * n = NormSq(v)

scale_down(v, n) == << v[1] \div n, v[2] \div n, v[3] \div n >>

\* mesh.apply_transform on one vertex: (M @ (x, y, z, 1))[0:3]
transform_point(M, p) ==
    << M[1][1] * p[1] + M[1][2] * p[2] + M[1][3] * p[3] + M[1][4],
       M[2][1] * p[1] + M[2][2] * p[2] + M[2][3] * p[3] + M[2][4],
       M[3][1] * p[1] + M[3][2] * p[2] + M[3][3] * p[3] + M[3][4] >>

\* matrix = np.eye(4); matrix[0:3, 0..3] = x, y, z, t
from_columns(x, y, z, t) ==
    << <<x[1], y[1], z[1], t[1]>>,
       <<x[2], y[2], z[2], t[2]>>,
       <<x[3], y[3], z[3], t[3]>>,
       <<0, 0, 0, 1>> >>

----------------------------------------------------------------------------
(* IFCGeometryParameterParser: points, directions, placements *)

extract_cartesian_point(point) ==
    IF point = None THEN <<0, 0, 0>>
    ELSE IF Len(point) = 2 THEN <<point[1], point[2], 0>>
    ELSE IF Len(point) = 3 THEN <<point[1], point[2], point[3]>>
    ELSE <<0, 0, 0>>

extract_direction(direction) ==
    IF direction = None THEN <<0, 0, 1>>
    ELSE IF Len(direction) = 2 THEN <<direction[1], direction[2], 0>>
    ELSE IF Len(direction) = 3 THEN <<direction[1], direction[2], direction[3]>>
    ELSE <<0, 0, 1>>

extract_axis2_placement_3d(p) ==
    IF p = None
    THEN [location |-> <<0, 0, 0>>, axis |-> <<0, 0, 1>>, ref_direction |-> <<1, 0, 0>>]
    ELSE
    [ location |-> extract_cartesian_point(p.Location),
      axis |-> IF p.Axis # None THEN extract_direction(p.Axis) ELSE <<0, 0, 1>>,
      ref_direction |-> IF p.RefDirection # None
                        THEN extract_direction(p.RefDirection) ELSE <<1, 0, 0>> ]

get_placement_matrix_lost_location(placement_data) ==
    LET axis0 == placement_data.axis
        ref0 == placement_data.ref_direction
        axis == IF norm(axis0) > 0 THEN scale_down(axis0, norm(axis0)) ELSE <<0, 0, 1>>
        ref1 == IF norm(ref0) > 0 THEN scale_down(ref0, norm(ref0)) ELSE <<1, 0, 0>>
        y0 == cross(axis, ref1)
        y_direction == IF norm(y0) > 0 THEN scale_down(y0, norm(y0)) ELSE <<0, 1, 0>>
        ref_direction == cross(y_direction, axis)
    IN  from_columns(ref_direction, y_direction, axis, <<0, 0, 0>>)

get_placement_matrix(placement_data) ==
    LET location == placement_data.location
        axis0 == placement_data.axis
        ref0 == placement_data.ref_direction
        axis == IF norm(axis0) > 0 THEN scale_down(axis0, norm(axis0)) ELSE <<0, 0, 1>>
        ref1 == IF norm(ref0) > 0 THEN scale_down(ref0, norm(ref0)) ELSE <<1, 0, 0>>
        y0 == cross(axis, ref1)
        y_direction == IF norm(y0) > 0 THEN scale_down(y0, norm(y0)) ELSE <<0, 1, 0>>
        ref_direction == cross(y_direction, axis)
    IN  from_columns(ref_direction, y_direction, axis, location)

\* local_matrix of the IfcAxis2Placement2D branch: translation by (x, y, 0)
placement_matrix_2d(rel_placement) ==
    LET location == IF rel_placement.Location # None
                    THEN <<rel_placement.Location[1], rel_placement.Location[2], 0>>
                    ELSE <<0, 0, 0>>
    IN  from_columns(<<1, 0, 0>>, <<0, 1, 0>>, <<0, 0, 1>>, location)

compose_child_first(local_matrix, total) == matmul(total, local_matrix)

\* total_matrix = local_matrix @ total_matrix
compose(local_matrix, total) == matmul(local_matrix, total)

\* the matrix one loop iteration leaves in total_matrix for an IfcLocalPlacement link
walk_link(link, total) ==
    IF link.RelativePlacement = None THEN total
    ELSE IF link.RelativePlacement.is_a = "IfcAxis2Placement3D"
    THEN compose(get_placement_matrix(extract_axis2_placement_3d(link.RelativePlacement)),
                 total)
    ELSE IF link.RelativePlacement.is_a = "IfcAxis2Placement2D"
    THEN compose(placement_matrix_2d(link.RelativePlacement), total)
    ELSE total

----------------------------------------------------------------------------
(* Inputs of the placement walk *)

Axis3D(loc, axis, ref) ==
    [is_a |-> "IfcAxis2Placement3D", Location |-> loc, Axis |-> axis, RefDirection |-> ref]

Axis2D(loc) ==
    [is_a |-> "IfcAxis2Placement2D", Location |-> loc, Axis |-> None, RefDirection |-> None]

Local(rel) == [is_a |-> "IfcLocalPlacement", RelativePlacement |-> rel]

RelativePlacements ==
    { Axis3D(<<1, 2, 3>>, None, None),                    \* identity rotation, defaults
      Axis3D(<<0, -4, 5>>, <<0, 0, 1>>, <<1, 0, 0>>),     \* identity rotation, explicit
      Axis3D(<<2, 0, 1>>, <<0, 0, 1>>, <<0, 1, 0>>),      \* quarter turn about Z
      Axis3D(<<0, 3, 0>>, <<2, 0, 0>>, <<0, 0, -3>>),     \* non-unit axis and ref
      Axis3D(<<1, 1>>, <<0, 0, -1>>, <<1, 0>>),           \* 2-component point and ref
      Axis3D(None, <<0, 0, 0>>, None),                    \* zero axis, no location
      Axis3D(<<4, 0, 0>>, <<0, 1, 0>>, <<0, -2, 0>>),     \* axis and ref parallel, along Y
      Axis2D(<<7, 1>>),
      Axis2D(None),
      [is_a |-> "IfcAxis1Placement", Location |-> <<9, 9, 9>>, Axis |-> None,
       RefDirection |-> None],
      None }

Links ==
    { Local(r) : r \in RelativePlacements }
        \cup { [is_a |-> "IfcGridPlacement", RelativePlacement |-> None] }

RECURSIVE ChainsOf(_)
ChainsOf(n) ==
    IF n = 0 THEN { <<>> }
    ELSE LET shorter == ChainsOf(n - 1)
         IN  shorter \cup { Append(c, l) : c \in { s \in shorter : Len(s) = n - 1 },
                                           l \in Links }

\* ObjectPlacement: "absent" = no such attribute, None = null, else the chain of
\* placements reached through PlacementRelTo, the element's own link first
Elements ==
    { [ObjectPlacement |-> "absent", chain |-> <<>>],
      [ObjectPlacement |-> "null", chain |-> <<>>] }
        \cup { [ObjectPlacement |-> "set", chain |-> c] : c \in ChainsOf(MaxChain) \ { <<>> } }

has_object_placement(e) == e.ObjectPlacement = "set"

\* placement.PlacementRelTo as an index into the chain, 0 = None. The last
\* placement of a well-formed chain has none; in a malformed file it refers back
\* to a placement already on the chain (field loops_to)
PlacementRelTo(e, i) ==
    IF i < Len(e.chain) THEN i + 1
    ELSE IF "loops_to" \in DOMAIN e THEN e.loops_to
    ELSE 0

----------------------------------------------------------------------------
(* extract_object_placement *)

no_placement_result_zeros ==
    << <<0, 0, 0, 0>>, <<0, 0, 0, 0>>, <<0, 0, 0, 0>>, <<0, 0, 0, 0>> >>

\* return np.eye(4) of the missing-placement branch
no_placement_result == eye4

IdleMesh ==
    /\ elem_data = None /\ opening_meshes = <<>> /\ work = None /\ mesh = None
    /\ result_mesh = None /\ tool_meshes = <<>> /\ tool_idx = 0 /\ attempts = <<>>
    /\ exported = <<>>

IdleProfile == profile = None /\ result = None /\ solid_geom = None /\ polygon_built = FALSE

IdleExtract == extracted = None /\ item_idx = 0

IdleBatch == batch = <<>> /\ batch_idx = 0 /\ elements_data = <<>> /\ added = <<>>

IdleViewers == viewer = None /\ table_ui = None /\ gradio = None /\ xform = None

IdlePlacement ==
    /\ element = None /\ placement = 0 /\ total_matrix = eye4 /\ returned = <<>>
    /\ walked = {}

InitPlacement ==
    /\ pc = "idle"
    /\ element \in Elements
    /\ placement = 0
    /\ total_matrix = eye4
    /\ returned = <<>>
    /\ walked = {}
    /\ IdleProfile
    /\ IdleMesh
    /\ IdleExtract
    /\ IdleBatch
    /\ IdleViewers

\* entry of extract_object_placement up to the loop head
CallExtractObjectPlacement ==
    /\ pc = "idle"
    /\ Len(returned) < MaxCalls
    /\ IF ~has_object_placement(element)
       THEN /\ returned' = Append(returned, no_placement_result)
            /\ UNCHANGED <<pc, placement, total_matrix, walked>>
       ELSE /\ placement' = 1
            /\ total_matrix' = eye4
            /\ walked' = {}
            /\ pc' = "walk"
            /\ UNCHANGED returned
    /\ UNCHANGED <<element, profileVars, meshVars, extractVars, batchVars, viewerVars>>

\* one iteration of the while loop on an IfcLocalPlacement
WalkLocalPlacement ==
    /\ pc = "walk"
    /\ placement # 0
    /\ element.chain[placement].is_a = "IfcLocalPlacement"
    /\ total_matrix' = walk_link(element.chain[placement], total_matrix)
    /\ placement' = PlacementRelTo(element, placement)
    /\ walked' = walked \cup { <<placement, total_matrix>> }
    /\ UNCHANGED <<pc, element, returned, profileVars, meshVars, extractVars, batchVars, viewerVars>>

break_result_identity(total) == eye4

\* else: break, then return total_matrix: what the walk returns at a link that is
\* not an IfcLocalPlacement
break_result(total) == total

\* the loop's else branch: break, then return total_matrix
WalkBreak ==
    /\ pc = "walk"
    /\ placement # 0
    /\ element.chain[placement].is_a # "IfcLocalPlacement"
    /\ returned' = Append(returned, break_result(total_matrix))
    /\ pc' = "idle"
    /\ UNCHANGED <<element, placement, total_matrix, walked, profileVars, meshVars, extractVars,
                   batchVars, viewerVars>>

\* placement is None: the loop ends, return total_matrix
WalkReturn ==
    /\ pc = "walk"
    /\ placement = 0
    /\ returned' = Append(returned, total_matrix)
    /\ pc' = "idle"
    /\ UNCHANGED <<element, placement, total_matrix, walked, profileVars, meshVars, extractVars,
                   batchVars, viewerVars>>

NextPlacement ==
    \/ CallExtractObjectPlacement
    \/ WalkLocalPlacement
    \/ WalkBreak
    \/ WalkReturn

SpecPlacement == InitPlacement /\ [][NextPlacement]_vars

----------------------------------------------------------------------------
(* extract_profile_def *)

\* Lengths of the circle branch are fixed-point: np.cos / np.sin are tabulated in
\* thousandths for the angles 2*pi*k/32, k = 0..32, and a radius is a multiple of
\* 1000 model units, so Radius * cos(angle) is an integer.
CosQuarter == <<1000, 981, 924, 831, 707, 556, 383, 195, 0>>

cos_32(k) ==
    LET m == k % 32
    IN  IF m <= 8 THEN CosQuarter[m + 1]
        ELSE IF m <= 16 THEN -CosQuarter[16 - m + 1]
        ELSE IF m <= 24 THEN -CosQuarter[m - 16 + 1]
        ELSE CosQuarter[32 - m + 1]

\* np.cos(2*pi*k/32).  Floating point does not return 0.0 at pi/2 and 3*pi/2
\* (6.1e-17, -1.8e-16): the residue is kept as one unit of the last place.
np_cos(k) ==
    IF k = 8 THEN 1 ELSE IF k = 24 THEN -1 ELSE cos_32(k)

\* np.sin(2*pi*k/32).  Floating point does not return 0.0 at pi and 2*pi
\* (1.2e-16, -2.4e-16): the residue is kept as one unit of the last place.
np_sin(k) ==
    IF k = 16 THEN 1 ELSE IF k = 32 THEN -1 ELSE cos_32(k + 24)

num_points == 32

circle_range_open == 0..(num_points - 1)

\* range(num_points + 1)
circle_range == 0..num_points

circle_points(Radius) ==
    [n \in 1..Cardinality(circle_range) |->
        LET i == n - 1
        IN  << (Radius * np_cos(i)) \div 1000, (Radius * np_sin(i)) \div 1000, 0 >>]

RECURSIVE without_repeated_points(_)
without_repeated_points(points) ==
    IF Len(points) <= 1 THEN points
    ELSE LET rest == without_repeated_points(Tail(points))
         IN  IF points[1] = points[2] THEN rest ELSE <<points[1]>> \o rest

extract_polyline_simplified(polyline) ==
    IF polyline = None THEN <<>>
    ELSE without_repeated_points(
             [n \in 1..Len(polyline.Points) |-> extract_cartesian_point(polyline.Points[n])])

\* one extract_cartesian_point per entry of polyline.Points, appended in order
extract_polyline(polyline) ==
    IF polyline = None THEN <<>>
    ELSE [n \in 1..Len(polyline.Points) |-> extract_cartesian_point(polyline.Points[n])]

extract_indexed_poly_curve(curve) ==
    [n \in 1..Len(curve.Points.CoordList) |->
        LET coord == curve.Points.CoordList[n]
        IN  <<coord[1], coord[2], IF Len(coord) > 2 THEN coord[3] ELSE 0>>]

rectangle_vertices_corner(XDim, YDim) ==
    << <<0, 0, 0>>, <<XDim, 0, 0>>, <<XDim, YDim, 0>>, <<0, YDim, 0>>, <<0, 0, 0>> >>

rectangle_vertices(XDim, YDim) ==
    << <<-(XDim \div 2), -(YDim \div 2), 0>>,
       <<XDim \div 2, -(YDim \div 2), 0>>,
       <<XDim \div 2, YDim \div 2, 0>>,
       <<-(XDim \div 2), YDim \div 2, 0>>,
       <<-(XDim \div 2), -(YDim \div 2), 0>> >>

\* the returned dict: keys are the keys it holds; a field whose key is absent is None
ProfileDict(type, keys, dims, vertices) ==
    [type |-> type, keys |-> {"type", "name"} \cup keys, dims |-> dims,
     profile_vertices |-> vertices]

ishape_profile_outlined(p) ==
    ProfileDict(p.is_a,
                {"overall_width", "overall_depth", "web_thickness", "flange_thickness",
                 "profile_vertices"},
                p.IShape, rectangle_vertices(p.IShape[1], p.IShape[2]))

\* the I-shape branch: the four parameters, no vertex list
ishape_profile(p) ==
    ProfileDict(p.is_a,
                {"overall_width", "overall_depth", "web_thickness", "flange_thickness"},
                p.IShape, <<>>)

extract_profile_def(p) ==
    IF p = None THEN [type |-> None, keys |-> {}, dims |-> <<>>, profile_vertices |-> <<>>]
    ELSE IF p.is_a = "IfcRectangleProfileDef"
    THEN ProfileDict(p.is_a, {"width", "height", "profile_vertices"}, <<p.XDim, p.YDim>>,
                     rectangle_vertices(p.XDim, p.YDim))
    ELSE IF p.is_a = "IfcCircleProfileDef"
    THEN ProfileDict(p.is_a, {"radius", "profile_vertices"}, <<p.Radius>>,
                     circle_points(p.Radius))
    ELSE IF p.is_a = "IfcArbitraryClosedProfileDef"
    THEN IF p.OuterCurve.is_a = "IfcPolyline"
         THEN ProfileDict(p.is_a, {"profile_vertices"}, <<>>, extract_polyline(p.OuterCurve))
         ELSE IF p.OuterCurve.is_a = "IfcIndexedPolyCurve"
         THEN ProfileDict(p.is_a, {"profile_vertices"}, <<>>,
                          extract_indexed_poly_curve(p.OuterCurve))
         ELSE ProfileDict(p.is_a, {}, <<>>, <<>>)
    ELSE IF p.is_a = "IfcIShapeProfileDef"
    THEN ishape_profile(p)
    ELSE ProfileDict(p.is_a, {}, <<>>, <<>>)

\* profile.get('profile_vertices', [])
get_profile_vertices(d) ==
    IF "profile_vertices" \in d.keys THEN d.profile_vertices ELSE <<>>

----------------------------------------------------------------------------
(* Inputs of extract_profile_def *)

MaxPoints == 5    \* longest point list of an arbitrary closed profile

NoCurve == [is_a |-> "None", Points |-> <<>>]

ProfileEntity(is_a, XDim, YDim, Radius, IShape, OuterCurve) ==
    [is_a |-> is_a, XDim |-> XDim, YDim |-> YDim, Radius |-> Radius, IShape |-> IShape,
     OuterCurve |-> OuterCurve]

Rectangle(XDim, YDim) ==
    ProfileEntity("IfcRectangleProfileDef", XDim, YDim, 0, <<>>, NoCurve)

Circle(Radius) == ProfileEntity("IfcCircleProfileDef", 0, 0, Radius, <<>>, NoCurve)

Polyline(points) ==
    ProfileEntity("IfcArbitraryClosedProfileDef", 0, 0, 0, <<>>,
                  [is_a |-> "IfcPolyline", Points |-> points])

IndexedPolyCurve(coords) ==
    ProfileEntity("IfcArbitraryClosedProfileDef", 0, 0, 0, <<>>,
                  [is_a |-> "IfcIndexedPolyCurve", Points |-> [CoordList |-> coords]])

PointPool == { <<0, 0>>, <<4, 0>>, <<4, 2>>, <<0, 2, 0>> }

RECURSIVE PointLists(_)
PointLists(n) ==
    IF n = 0 THEN { <<>> }
    ELSE LET shorter == PointLists(n - 1)
         IN  shorter \cup { Append(l, q) : l \in { s \in shorter : Len(s) = n - 1 },
                                           q \in PointPool }

RectangleDims == { <<2, 4>>, <<4, 2>>, <<200, 100>>, <<6, 6>> }

Radii == { 0, 1000, -2000, 3000 }

Profiles ==
    { None }
        \cup { Rectangle(d[1], d[2]) : d \in RectangleDims }
        \cup { Circle(r) : r \in Radii }
        \cup { Polyline(l) : l \in PointLists(MaxPoints) }
        \cup { IndexedPolyCurve(l) : l \in PointLists(MaxPoints) }
        \cup { ProfileEntity("IfcArbitraryClosedProfileDef", 0, 0, 0, <<>>,
                             [is_a |-> "IfcCompositeCurve", Points |-> <<>>]),
               ProfileEntity("IfcIShapeProfileDef", 0, 0, 0, <<100, 200, 6, 9>>, NoCurve),
               ProfileEntity("IfcLShapeProfileDef", 0, 0, 0, <<>>, NoCurve) }

InitProfile ==
    /\ pc = "idle"
    /\ profile \in Profiles
    /\ result = None
    /\ solid_geom = None
    /\ polygon_built = FALSE
    /\ IdlePlacement
    /\ IdleMesh
    /\ IdleExtract
    /\ IdleBatch
    /\ IdleViewers

ExtractProfileDef ==
    /\ pc = "idle"
    /\ result' = extract_profile_def(profile)
    /\ pc' = "done"
    /\ UNCHANGED <<profile, solid_geom, polygon_built, placementVars, meshVars, extractVars, batchVars, viewerVars>>


----------------------------------------------------------------------------
(* extract_extruded_area_solid and MeshGenerator *)

\* the geom_data dict; a key the dict does not hold reads as its .get default.
\* A Depth of None is carried as depth_is_none (depth is then unused).
extract_extruded_area_solid(solid) ==
    IF solid = None \/ solid.is_a # "IfcExtrudedAreaSolid"
    THEN [type |-> "", profile |-> extract_profile_def(None),
          position |-> extract_axis2_placement_3d(None),
          extrusion_direction |-> <<0, 0, 1>>, depth |-> 0, depth_is_none |-> FALSE,
          has_boolean |-> FALSE]
    ELSE [type |-> "IfcExtrudedAreaSolid",
          profile |-> extract_profile_def(solid.SweptArea),
          position |-> extract_axis2_placement_3d(solid.Position),
          extrusion_direction |-> extract_direction(solid.ExtrudedDirection),
          depth |-> solid.Depth, depth_is_none |-> solid.DepthIsNone,
          has_boolean |-> FALSE]

\* a division by a zero norm (of axis, of ref_direction, or of their cross
\* product) leaves NaN in the rotation
rotation_is_nan(axis, ref_direction) ==
    \/ norm(axis) = 0
    \/ norm(ref_direction) = 0
    \/ norm(cross(scale_down(axis, norm(axis)),
                  scale_down(ref_direction, norm(ref_direction)))) = 0

create_rotation_matrix(axis, ref_direction) ==
    LET z_axis == scale_down(axis, norm(axis))
        x0 == scale_down(ref_direction, norm(ref_direction))
        y0 == cross(z_axis, x0)
        y_axis == scale_down(y0, norm(y0))
        x_axis == cross(y_axis, z_axis)
    IN  from_columns(x_axis, y_axis, z_axis, <<0, 0, 0>>)

\* twice the signed area of the ring through the XY projection of the vertices
RECURSIVE Shoelace(_, _)
Shoelace(v, n) ==
    IF n = 0 THEN 0
    ELSE LET a == v[n]
             b == v[(n % Len(v)) + 1]
         IN  Shoelace(v, n - 1) + a[1] * b[2] - b[1] * a[2]

\* trimesh.creation.extrude_polygon raises on a ring without area and on a zero
\* height
extrusion_fails(profile_vertices, depth) ==
    Shoelace(profile_vertices, Len(profile_vertices)) = 0 \/ depth = 0

\* vertices of the extruded polygon: the ring at z = 0 and at z = height
extrude_polygon(profile_vertices, height) ==
    { <<profile_vertices[n][1], profile_vertices[n][2], 0>> :
        n \in 1..Len(profile_vertices) }
    \cup { <<profile_vertices[n][1], profile_vertices[n][2], height>> :
        n \in 1..Len(profile_vertices) }

\* A mesh: src names the object (which solid it was synthesized from), verts its
\* vertices, cuts the tools subtracted from it so far.  The vertices a boolean
\* engine adds or removes are not modelled: a difference keeps verts and extends
\* cuts.  nan marks vertices computed through a NaN rotation.
Mesh(src, verts, nan) ==
    [src |-> src, verts |-> verts, nan |-> nan, cuts |-> <<>>, watertight |-> TRUE]

apply_transform(m, matrix) ==
    [m EXCEPT !.verts = { transform_point(matrix, p) : p \in m.verts }]

\* transform = translation_matrix @ rotation_matrix
solid_transform(position) ==
    matmul(from_columns(<<1, 0, 0>>, <<0, 1, 0>>, <<0, 0, 1>>, position.location),
           create_rotation_matrix(position.axis, position.ref_direction))

too_few_vertices_below_two(profile_vertices) == Len(profile_vertices) < 2

\* if not profile_vertices or len(profile_vertices) < 3: return None
too_few_vertices(profile_vertices) == Len(profile_vertices) < 3

\* extrude_profile reaches polygon = Polygon(profile_2d)
polygon_attempted(profile_vertices) == ~too_few_vertices(profile_vertices)

extrude_profile_raises_on_flat_ring(profile_vertices, depth_is_none) ==
    /\ ~too_few_vertices(profile_vertices)
    /\ depth_is_none \/ Shoelace(profile_vertices, Len(profile_vertices)) = 0

\* np.array(extrusion_direction) * depth, outside the try blocks
extrude_profile_raises(profile_vertices, depth_is_none) ==
    ~too_few_vertices(profile_vertices) /\ depth_is_none

\* the top ring displaced by extrusion_direction * depth
extrude_along(profile_vertices, extrusion_vec) ==
    { <<profile_vertices[n][1], profile_vertices[n][2], 0>> :
        n \in 1..Len(profile_vertices) }
    \cup { <<profile_vertices[n][1] + extrusion_vec[1],
             profile_vertices[n][2] + extrusion_vec[2], extrusion_vec[3]>> :
        n \in 1..Len(profile_vertices) }

extrude_profile_along_direction(src, profile_vertices, depth, position, extrusion_direction) ==
    LET extrusion_vec == << extrusion_direction[1] * depth, extrusion_direction[2] * depth,
                            extrusion_direction[3] * depth >>
    IN  IF too_few_vertices(profile_vertices) THEN None
        ELSE IF extrusion_fails(profile_vertices, depth) THEN None
        ELSE IF rotation_is_nan(position.axis, position.ref_direction)
        THEN Mesh(src, extrude_along(profile_vertices, extrusion_vec), TRUE)
        ELSE apply_transform(Mesh(src, extrude_along(profile_vertices, extrusion_vec),
                                  FALSE),
                             solid_transform(position))

\* extrusion_direction enters extrusion_vec only, which nothing reads: the ring is
\* extruded by height=depth and then placed by the solid's position
extrude_profile(src, profile_vertices, depth, position, extrusion_direction) ==
    IF too_few_vertices(profile_vertices) THEN None
    ELSE IF extrusion_fails(profile_vertices, depth) THEN None
    ELSE IF rotation_is_nan(position.axis, position.ref_direction)
    THEN Mesh(src, extrude_polygon(profile_vertices, depth), TRUE)
    ELSE apply_transform(Mesh(src, extrude_polygon(profile_vertices, depth), FALSE),
                         solid_transform(position))

create_mesh_raises(geom_data) ==
    /\ geom_data.type = "IfcExtrudedAreaSolid"
    /\ get_profile_vertices(geom_data.profile) # <<>>
    /\ extrude_profile_raises(get_profile_vertices(geom_data.profile),
                              geom_data.depth_is_none)

\* whether the call gets as far as Polygon(profile_2d) inside extrude_profile
create_mesh_attempts_polygon(gd) ==
    /\ gd.type = "IfcExtrudedAreaSolid"
    /\ get_profile_vertices(gd.profile) # <<>>
    /\ polygon_attempted(get_profile_vertices(gd.profile))

create_mesh_from_geometry_data(src, geom_data) ==
    IF geom_data.type # "IfcExtrudedAreaSolid" THEN None
    ELSE IF get_profile_vertices(geom_data.profile) = <<>> THEN None
    ELSE extrude_profile(src, get_profile_vertices(geom_data.profile), geom_data.depth,
                         geom_data.position, geom_data.extrusion_direction)

\* mesh.bounds: the axis-aligned bounding box <<min corner, max corner>>
CoordMin(S, c) == CHOOSE a \in { p[c] : p \in S } : \A p \in S : a <= p[c]

CoordMax(S, c) == CHOOSE a \in { p[c] : p \in S } : \A p \in S : a >= p[c]

bounds(m) ==
    << <<CoordMin(m.verts, 1), CoordMin(m.verts, 2), CoordMin(m.verts, 3)>>,
       <<CoordMax(m.verts, 1), CoordMax(m.verts, 2), CoordMax(m.verts, 3)>> >>

----------------------------------------------------------------------------
(* PlotlyVisualizer.apply_boolean_difference *)

\* What result_mesh.difference(tool_mesh, engine='manifold') can do
Outcomes == {"raise", "none", "empty", "open", "ok"}

\* the value difference() returns when it does not raise
difference(host, tool, outcome) ==
    IF outcome = "none" THEN None
    ELSE IF outcome = "empty" THEN [host EXCEPT !.verts = {}, !.cuts = Append(@, tool.src)]
    ELSE [host EXCEPT !.cuts = Append(@, tool.src), !.watertight = (outcome = "ok")]

\* if result is not None and len(result.vertices) > 0
accepts(r) == r # None /\ Cardinality(r.verts) > 0

step_ignoring_exceptions(host, tool, outcome) ==
    IF outcome = "raise" THEN None
    ELSE IF accepts(difference(host, tool, outcome)) THEN difference(host, tool, outcome)
    ELSE host

step_from_base(host, tool, outcome) ==
    IF outcome = "raise" THEN host
    ELSE IF accepts(difference(host, tool, outcome))
    THEN [difference(host, tool, outcome) EXCEPT !.cuts = <<tool.src>>]
    ELSE host

\* one iteration of the for loop: the running host it leaves
step(host, tool, outcome) ==
    IF outcome = "raise" THEN host
    ELSE IF accepts(difference(host, tool, outcome)) THEN difference(host, tool, outcome)
    ELSE host

initial_result_none(base_mesh) == None

\* result_mesh = base_mesh
initial_result(base_mesh) == base_mesh

----------------------------------------------------------------------------
(* Inputs of add_element and apply_boolean_difference *)

MaxSolids == 2    \* most solids in an element's geometry list
MaxTools == 3     \* longest tool list handed to apply_boolean_difference directly

ExtrudedAreaSolid(SweptArea, Position, Depth) ==
    [is_a |-> "IfcExtrudedAreaSolid", SweptArea |-> SweptArea, Position |-> Position,
     ExtrudedDirection |-> <<0, 0, 1>>, Depth |-> Depth, DepthIsNone |-> FALSE,
     FirstOperand |-> None]

\* an IfcExtrudedAreaSolid whose Depth is None ($ in the file)
ExtrudedAreaSolidNoDepth(SweptArea, Position) ==
    [ExtrudedAreaSolid(SweptArea, Position, 0) EXCEPT !.DepthIsNone = TRUE]

Depths == {0, 3}

Positions ==
    { None,
      Axis3D(<<10, 20, 30>>, None, None),
      Axis3D(<<1, 0, 0>>, <<1, 0, 0>>, <<0, 3, 0>>),      \* Z along X, non-unit ref
      Axis3D(<<4, 0, 0>>, <<0, 1, 0>>, <<0, -2, 0>>),     \* axis and ref parallel
      Axis3D(None, <<0, 0, 0>>, None) }                   \* zero-length axis

\* ExtrudedDirection of a solid: along Z, and oblique with a reversed Z component
ExtrudedDirections == { <<0, 0, 1>>, <<1, 0, -1>> }

SolidsOf(p) ==
    { [ExtrudedAreaSolid(p, pos, d) EXCEPT !.ExtrudedDirection = dir] :
          pos \in Positions, d \in Depths, dir \in ExtrudedDirections }
    \cup { ExtrudedAreaSolidNoDepth(p, pos) : pos \in Positions }

\* extract_extruded_area_solid on a solid that sweeps the profile
ExtractExtrudedAreaSolid ==
    /\ pc = "done"
    /\ \E solid \in SolidsOf(profile) : solid_geom' = extract_extruded_area_solid(solid)
    /\ pc' = "solid"
    /\ UNCHANGED <<profile, result, polygon_built, placementVars, meshVars, extractVars, batchVars, viewerVars>>

\* MeshGenerator.create_mesh_from_geometry_data(geom_data)
CreateMeshFromGeometryData ==
    /\ pc = "solid"
    /\ IF create_mesh_raises(solid_geom)
       THEN /\ pc' = "raised"
            /\ polygon_built' = TRUE
            /\ UNCHANGED mesh
       ELSE /\ pc' = "meshed"
            /\ mesh' = create_mesh_from_geometry_data(<<"solid">>, solid_geom)
            /\ polygon_built' = create_mesh_attempts_polygon(solid_geom)
    /\ UNCHANGED <<profile, result, solid_geom, placementVars, elem_data, opening_meshes,
                   work, result_mesh, tool_meshes, tool_idx, attempts, exported, extractVars, batchVars, viewerVars>>

\* MeshGenerator.extrude_profile called on the vertex list of the profile dict
ExtrudeProfile ==
    /\ pc = "done"
    /\ \E depth \in Depths, depth_is_none \in BOOLEAN :
          /\ polygon_built' = polygon_attempted(get_profile_vertices(result))
          /\ IF extrude_profile_raises(get_profile_vertices(result), depth_is_none)
             THEN pc' = "raised" /\ UNCHANGED mesh
             ELSE /\ pc' = "extruded"
                  /\ mesh' = extrude_profile(<<"solid">>, get_profile_vertices(result),
                                             depth, extract_axis2_placement_3d(None),
                                             <<0, 0, 1>>)
    /\ UNCHANGED <<profile, result, solid_geom, placementVars, elem_data, opening_meshes,
                   work, result_mesh, tool_meshes, tool_idx, attempts, exported, extractVars, batchVars, viewerVars>>

NextProfile ==
    \/ ExtractProfileDef
    \/ ExtractExtrudedAreaSolid
    \/ CreateMeshFromGeometryData
    \/ ExtrudeProfile

SpecProfile == InitProfile /\ [][NextProfile]_vars

\* geometry entries an element can carry: three rectangles that synthesize (default
\* placement, translated, rotated), an open triangle, and two that yield no mesh
HostGeometry ==
    { extract_extruded_area_solid(s) : s \in
        { ExtrudedAreaSolid(Rectangle(2, 4), None, 3),
          ExtrudedAreaSolid(Rectangle(2, 4), None, 0),
          ExtrudedAreaSolidNoDepth(Rectangle(2, 4), None),
          ExtrudedAreaSolid(Rectangle(200, 100), Axis3D(<<10, 20, 30>>, None, None), 300),
          ExtrudedAreaSolid(Rectangle(4, 2),
                            Axis3D(<<1, 0, 0>>, <<1, 0, 0>>, <<0, 1, 0>>), 1),
          ExtrudedAreaSolid(Polyline(<< <<0, 0>>, <<2, 0>>, <<4, 0>> >>), None, 2) } }

RECURSIVE GeometryLists(_)
GeometryLists(n) ==
    IF n = 0 THEN { <<>> }
    ELSE LET shorter == GeometryLists(n - 1)
         IN  shorter \cup { Append(l, g) : l \in { s \in shorter : Len(s) = n - 1 },
                                           g \in HostGeometry }

OpeningGeometry ==
    { extract_extruded_area_solid(s) : s \in
        { ExtrudedAreaSolid(Rectangle(2, 2), None, 8),
          ExtrudedAreaSolid(ProfileEntity("IfcLShapeProfileDef", 0, 0, 0, <<>>, NoCurve),
                            None, 8) } }

Translation(t) == from_columns(<<1, 0, 0>>, <<0, 1, 0>>, <<0, 0, 1>>, t)

Openings ==
    { [global_id |-> "opening", object_placement |-> Translation(<<1, 0, 1>>),
       geometry |-> <<g>>] : g \in OpeningGeometry }

OpeningLists ==
    { <<>> } \cup { <<a>> : a \in Openings } \cup { <<a, b>> : a \in Openings, b \in Openings }

ObjectPlacements ==
    { eye4,
      get_placement_matrix([location |-> <<0, 5, 10>>, axis |-> <<0, 0, 1>>,
                            ref_direction |-> <<0, 1, 0>>]) }

ElemData ==
    { [element_type |-> "IfcWall", global_id |-> "wall", object_placement |-> op,
       geometry |-> gl, openings |-> ol] :
        op \in ObjectPlacements, gl \in GeometryLists(MaxSolids), ol \in OpeningLists }

\* arguments of a direct call of apply_boolean_difference
BaseMeshes ==
    { create_mesh_from_geometry_data(<<"base">>, g) : g \in HostGeometry } \ { None }

ToolMesh(n) ==
    apply_transform(
        create_mesh_from_geometry_data(<<"tool", n>>,
            extract_extruded_area_solid(ExtrudedAreaSolid(Rectangle(2, 2), None, 8))),
        Translation(<<n, 0, 1>>))

ToolLists == { [n \in 1..len |-> ToolMesh(n)] : len \in 0..MaxTools }

\* the (opening, solid) index pairs in the order the nested loops visit them
RECURSIVE OpeningPairs(_, _)
OpeningPairs(openings, o) ==
    IF o > Len(openings) THEN <<>>
    ELSE [g \in 1..Len(openings[o].geometry) |-> <<o, g>>] \o OpeningPairs(openings, o + 1)

----------------------------------------------------------------------------
(* PlotlyVisualizer.add_element and apply_boolean_difference *)

has_opening_meshes(meshes) == meshes # <<>>

opening_transform_under_host(data, opening) ==
    matmul(data.object_placement, opening.object_placement)

\* opening_placement = opening.get('object_placement', np.eye(4)): the matrix
\* add_element applies to the tool meshes of one opening of the element
opening_transform(data, opening) == opening.object_placement

\* opening_meshes after the loops over the openings and their solids, when no
\* synthesis raises: SynthesizeOpening run to OpeningsDone
RECURSIVE synthesized_openings(_, _)
synthesized_openings(data, k) ==
    IF k > Len(OpeningPairs(data.openings, 1)) THEN <<>>
    ELSE LET pair == OpeningPairs(data.openings, 1)[k]
             opening == data.openings[pair[1]]
             opening_mesh == create_mesh_from_geometry_data(<<"opening", pair[1], pair[2]>>,
                                                            opening.geometry[pair[2]])
         IN  (IF opening_mesh # None
              THEN << apply_transform(opening_mesh, opening_transform(data, opening)) >>
              ELSE <<>>)
             \o synthesized_openings(data, k + 1)

ExportEntry(h, m) == [solid |-> h, mesh |-> m]

InitMesh ==
    /\ pc = "idle"
    /\ \/ /\ elem_data \in ElemData
          /\ mesh = None
          /\ tool_meshes = <<>>
          /\ work = [entry |-> "add_element", k |-> 0, h |-> 0]
       \/ /\ elem_data = None
          /\ mesh \in BaseMeshes
          /\ tool_meshes \in ToolLists
          /\ work = [entry |-> "apply_boolean_difference", k |-> 0, h |-> 0]
    /\ opening_meshes = <<>>
    /\ result_mesh = None
    /\ tool_idx = 0
    /\ attempts = <<>>
    /\ exported = <<>>
    /\ IdlePlacement
    /\ IdleProfile
    /\ IdleExtract
    /\ IdleBatch
    /\ IdleViewers

\* add_element up to the loop over the openings
CallAddElement ==
    /\ pc = "idle"
    /\ work.entry = "add_element"
    /\ pc' = "openings"
    /\ work' = [work EXCEPT !.k = 1, !.h = 1]
    /\ UNCHANGED <<elem_data, opening_meshes, mesh, result_mesh, tool_meshes, tool_idx,
                   attempts, exported, placementVars, profileVars, extractVars, batchVars, viewerVars>>

\* one iteration of the inner loop over an opening's solids
SynthesizeOpening ==
    /\ pc = "openings"
    /\ work.k <= Len(OpeningPairs(elem_data.openings, 1))
    /\ LET pair == OpeningPairs(elem_data.openings, 1)[work.k]
           opening == elem_data.openings[pair[1]]
           opening_geom == opening.geometry[pair[2]]
           opening_mesh == create_mesh_from_geometry_data(<<"opening", pair[1], pair[2]>>,
                                                          opening_geom)
       IN  IF create_mesh_raises(opening_geom)
           THEN pc' = "raised" /\ UNCHANGED <<opening_meshes, work>>
           ELSE /\ opening_meshes' =
                    IF opening_mesh # None
                    THEN Append(opening_meshes,
                                apply_transform(opening_mesh,
                                                opening_transform(elem_data, opening)))
                    ELSE opening_meshes
                /\ work' = [work EXCEPT !.k = @ + 1]
                /\ pc' = pc
    /\ UNCHANGED <<elem_data, mesh, result_mesh, tool_meshes, tool_idx, attempts, exported,
                   placementVars, profileVars, extractVars, batchVars, viewerVars>>

\* the loop over the openings is over: go on to the element's own solids
OpeningsDone ==
    /\ pc = "openings"
    /\ work.k > Len(OpeningPairs(elem_data.openings, 1))
    /\ pc' = "solids"
    /\ UNCHANGED <<elem_data, opening_meshes, work, mesh, result_mesh, tool_meshes,
                   tool_idx, attempts, exported, placementVars, profileVars, extractVars, batchVars, viewerVars>>

\* one iteration of the loop over the element's solids, up to the boolean call or,
\* without opening meshes, through the export
SynthesizeSolid ==
    /\ pc = "solids"
    /\ work.h <= Len(elem_data.geometry)
    /\ LET geom == elem_data.geometry[work.h]
           m == create_mesh_from_geometry_data(<<"solid", work.h>>, geom)
           placed == apply_transform(m, elem_data.object_placement)
       IN  IF create_mesh_raises(geom)
           THEN /\ pc' = "raised"
                /\ UNCHANGED <<work, mesh, result_mesh, tool_meshes, tool_idx, attempts,
                               exported>>
           ELSE IF m = None
           THEN /\ work' = [work EXCEPT !.h = @ + 1]
                /\ mesh' = None
                /\ UNCHANGED <<pc, result_mesh, tool_meshes, tool_idx, attempts, exported>>
           ELSE IF has_opening_meshes(opening_meshes)
           THEN /\ mesh' = placed
                /\ result_mesh' = initial_result(placed)
                /\ tool_meshes' = opening_meshes
                /\ tool_idx' = 1
                /\ attempts' = <<>>
                /\ pc' = "difference"
                /\ UNCHANGED <<work, exported>>
           ELSE /\ mesh' = placed
                /\ exported' = Append(exported, ExportEntry(work.h, placed))
                /\ work' = [work EXCEPT !.h = @ + 1]
                /\ UNCHANGED <<pc, result_mesh, tool_meshes, tool_idx, attempts>>
    /\ UNCHANGED <<elem_data, opening_meshes, placementVars, profileVars, extractVars, batchVars, viewerVars>>

\* apply_boolean_difference called directly: result_mesh = base_mesh
CallApplyBooleanDifference ==
    /\ pc = "idle"
    /\ work.entry = "apply_boolean_difference"
    /\ result_mesh' = initial_result(mesh)
    /\ tool_idx' = 1
    /\ pc' = "difference"
    /\ UNCHANGED <<elem_data, opening_meshes, work, mesh, tool_meshes, attempts, exported,
                   placementVars, profileVars, extractVars, batchVars, viewerVars>>

\* one iteration of the for loop over tool_meshes
SubtractTool ==
    /\ pc = "difference"
    /\ tool_idx <= Len(tool_meshes)
    /\ \E outcome \in Outcomes :
        /\ result_mesh' = step(result_mesh, tool_meshes[tool_idx], outcome)
        /\ attempts' = Append(attempts,
                              [host |-> result_mesh, tool |-> tool_meshes[tool_idx],
                               outcome |-> outcome])
    /\ tool_idx' = tool_idx + 1
    /\ UNCHANGED <<pc, elem_data, opening_meshes, work, mesh, tool_meshes, exported,
                   placementVars, profileVars, extractVars, batchVars, viewerVars>>

\* return result_mesh; in add_element the returned mesh is exported and the loop
\* over the solids goes on
ReturnDifference ==
    /\ pc = "difference"
    /\ tool_idx > Len(tool_meshes)
    /\ IF work.entry = "add_element"
       THEN /\ mesh' = result_mesh
            /\ exported' = IF result_mesh # None
                           THEN Append(exported, ExportEntry(work.h, result_mesh))
                           ELSE exported
            /\ work' = [work EXCEPT !.h = @ + 1]
            /\ pc' = "solids"
       ELSE /\ pc' = "done"
            /\ UNCHANGED <<mesh, exported, work>>
    /\ UNCHANGED <<elem_data, opening_meshes, result_mesh, tool_meshes, tool_idx, attempts,
                   placementVars, profileVars, extractVars, batchVars, viewerVars>>

\* the loop over the solids is over: add_element returns
AddElementDone ==
    /\ pc = "solids"
    /\ work.h > Len(elem_data.geometry)
    /\ pc' = "done"
    /\ UNCHANGED <<elem_data, opening_meshes, work, mesh, result_mesh, tool_meshes,
                   tool_idx, attempts, exported, placementVars, profileVars, extractVars, batchVars, viewerVars>>

NextMesh ==
    \/ CallAddElement
    \/ SynthesizeOpening
    \/ OpeningsDone
    \/ SynthesizeSolid
    \/ CallApplyBooleanDifference
    \/ SubtractTool
    \/ ReturnDifference
    \/ AddElementDone

SpecMesh == InitMesh /\ [][NextMesh]_vars

----------------------------------------------------------------------------
(* Properties of the placement walk *)

local_placement_kinds == {"IfcAxis2Placement3D", "IfcAxis2Placement2D"}

\* the translation t_i a 3D link carries
TranslationOf(link) == extract_cartesian_point(link.RelativePlacement.Location)

IdentityRotationLink(link) ==
    /\ link.is_a = "IfcLocalPlacement"
    /\ link.RelativePlacement # None
    /\ link.RelativePlacement.is_a = "IfcAxis2Placement3D"
    /\ link.RelativePlacement.Axis \in {None, <<0, 0, 1>>}
    /\ link.RelativePlacement.RefDirection \in {None, <<1, 0, 0>>}

IdentityRotationChain(e) ==
    /\ has_object_placement(e)
    /\ \A i \in 1..Len(e.chain) : IdentityRotationLink(e.chain[i])

RECURSIVE SumTranslations(_, _)
SumTranslations(chain, n) ==
    IF n = 0 THEN <<0, 0, 0>>
    ELSE LET s == SumTranslations(chain, n - 1)
             t == TranslationOf(chain[n])
         IN  <<s[1] + t[1], s[2] + t[2], s[3] + t[3]>>

\* C1: for a chain of N >= 1 local placements with 3D relative placements of
\* identity rotation and translations t1..tN, the returned matrix has an identity
\* rotation block and the translation column t1 + ... + tN.
C1_TranslationIsSum ==
    \A k \in 1..Len(returned) :
        IdentityRotationChain(element) =>
            returned[k] = from_columns(<<1, 0, 0>>, <<0, 1, 0>>, <<0, 0, 1>>,
                                       SumTranslations(element.chain, Len(element.chain)))

C1_Witness ==
    /\ Len(returned) >= 1
    /\ IdentityRotationChain(element)
    /\ Len(element.chain) = 3
    /\ TranslationOf(element.chain[1]) # TranslationOf(element.chain[2])
    /\ returned[1][1][4] # 0

AllLocalMatrices(e) ==
    /\ has_object_placement(e)
    /\ \A i \in 1..Len(e.chain) :
        /\ e.chain[i].is_a = "IfcLocalPlacement"
        /\ e.chain[i].RelativePlacement # None
        /\ e.chain[i].RelativePlacement.is_a \in local_placement_kinds

\* M_i: the local matrix link i carries
LocalMatrixOf(link) ==
    IF link.RelativePlacement.is_a = "IfcAxis2Placement3D"
    THEN get_placement_matrix(extract_axis2_placement_3d(link.RelativePlacement))
    ELSE placement_matrix_2d(link.RelativePlacement)

\* p mapped by M_i, then M_(i+1), ... up to the root link M_N
RECURSIVE MapOutward(_, _, _)
MapOutward(chain, i, p) ==
    IF i > Len(chain) THEN p
    ELSE MapOutward(chain, i + 1, transform_point(LocalMatrixOf(chain[i]), p))

ProbePoints == { <<0, 0, 0>>, <<1, 0, 0>>, <<0, 1, 0>>, <<0, 0, 1>>, <<2, -3, 5>> }

\* C2: the returned matrix is MN @ ... @ M2 @ M1: it maps an element-local point
\* as M1 does first, then outward link by link up to the root link.
C2_OutwardComposition ==
    \A k \in 1..Len(returned) :
        AllLocalMatrices(element) =>
            /\ returned[k][4] = <<0, 0, 0, 1>>
            /\ \A p \in ProbePoints :
                transform_point(returned[k], p) = MapOutward(element.chain, 1, p)

C2_Witness ==
    /\ Len(returned) >= 1
    /\ AllLocalMatrices(element)
    /\ Len(element.chain) = 3
    /\ element.chain[1].RelativePlacement.RefDirection = <<0, 1, 0>>
    /\ element.chain[2].RelativePlacement.Axis = <<2, 0, 0>>
    /\ element.chain[3].RelativePlacement.is_a = "IfcAxis2Placement2D"
    /\ element.chain[3].RelativePlacement.Location # None

\* C3: an element with no ObjectPlacement attribute, or a null one, resolves to
\* the identity matrix on every call, so two calls return equal matrices.
C3_NoPlacementIsIdentity ==
    ~has_object_placement(element) =>
        /\ pc = "idle"
        /\ \A k \in 1..Len(returned) : returned[k] = eye4
        /\ \A j, k \in 1..Len(returned) : returned[j] = returned[k]

C3_Witness ==
    /\ element.ObjectPlacement = "null"
    /\ Len(returned) = 2
    /\ returned[1] = returned[2]

----------------------------------------------------------------------------
(* Properties of extract_profile_def *)

DistSq(a, b) ==
    (a[1] - b[1]) * (a[1] - b[1]) + (a[2] - b[2]) * (a[2] - b[2])
        + (a[3] - b[3]) * (a[3] - b[3])

IsCircleResult == pc = "done" /\ profile # None /\ profile.is_a = "IfcCircleProfileDef"

\* C9: a circle profile yields exactly 33 vertices, whatever the radius: 32 samples
\* at equal angles (equal chords, starting on the local +X axis) at distance
\* |radius| from the local origin with z = 0, then one closing vertex at the
\* first sample's place.  Distances are compared within the table's rounding.
C9_CircleSamples ==
    IsCircleResult =>
        LET v == result.profile_vertices
            R2 == profile.Radius * profile.Radius
        IN  /\ "profile_vertices" \in result.keys
            /\ Len(v) = 33
            /\ \A n \in 1..33 : v[n][3] = 0
            /\ v[1] = <<profile.Radius, 0, 0>>
            /\ \A n \in 1..32 :
                /\ 500 * Abs(DistSq(v[n], <<0, 0, 0>>) - R2) <= R2
                /\ 37 * R2 <= 1000 * DistSq(v[n], v[n + 1])
                /\ 1000 * DistSq(v[n], v[n + 1]) <= 40 * R2
            /\ 1000 * 1000 * DistSq(v[33], v[1]) <= R2

C9_Witness ==
    /\ IsCircleResult
    /\ profile.Radius = -2000
    /\ Len(result.profile_vertices) = 33
    /\ result.profile_vertices[9][2] = -2000

\* C10: every non-empty vertex list extract_profile_def returns starts and ends
\* with the same point.
C10_StartsAndEndsAtSamePoint ==
    (pc = "done" /\ get_profile_vertices(result) # <<>>) =>
        LET v == get_profile_vertices(result)
        IN  v[1] = v[Len(v)]

----------------------------------------------------------------------------
(* Properties of add_element and apply_boolean_difference *)

\* an exported solid that is a rectangle extruded by a positive depth under the
\* default axis and ref_direction, placed by the identity, with nothing cut out
PlainRectangle(e) ==
    LET geom == elem_data.geometry[e.solid]
    IN  /\ elem_data.object_placement = eye4
        /\ geom.profile.type = "IfcRectangleProfileDef"
        /\ geom.depth > 0
        /\ geom.position.axis = <<0, 0, 1>>
        /\ geom.position.ref_direction = <<1, 0, 0>>
        /\ e.mesh.cuts = <<>>

\* C4: a W x H rectangle extruded by D > 0 at location (x, y, z), default axis and
\* ref_direction, identity object placement, has the bounding box
\* [x-W/2, x+W/2] x [y-H/2, y+H/2] x [z, z+D].
C4_RectangleBounds ==
    work.entry = "add_element" =>
        \A n \in 1..Len(exported) :
            PlainRectangle(exported[n]) =>
                LET geom == elem_data.geometry[exported[n].solid]
                    W == geom.profile.dims[1]
                    H == geom.profile.dims[2]
                    loc == geom.position.location
                IN  /\ 2 * (W \div 2) = W /\ 2 * (H \div 2) = H
                    /\ bounds(exported[n].mesh) =
                        << <<loc[1] - W \div 2, loc[2] - H \div 2, loc[3]>>,
                           <<loc[1] + W \div 2, loc[2] + H \div 2, loc[3] + geom.depth>> >>

C4_Witness ==
    /\ work.entry = "add_element"
    /\ Len(exported) = 2
    /\ PlainRectangle(exported[1]) /\ PlainRectangle(exported[2])
    /\ bounds(exported[1].mesh) = << <<-90, -30, 30>>, <<110, 70, 330>> >>
    /\ bounds(exported[2].mesh) = << <<-1, -2, 0>>, <<1, 2, 3>> >>

AddElementPastOpenings == work.entry = "add_element" /\ pc \in {"solids", "difference", "done"}

\* C5: with an empty tool list apply_boolean_difference returns the host mesh
\* itself; in add_element, when no opening yields a mesh, no subtraction is
\* attempted and every stored mesh is the synthesized, placed host mesh.
C5_NoToolsNoChange ==
    /\ (work.entry = "apply_boolean_difference" /\ pc = "done" /\ tool_meshes = <<>>) =>
            (result_mesh = mesh /\ attempts = <<>>)
    /\ (AddElementPastOpenings /\ opening_meshes = <<>>) =>
            /\ pc # "difference"
            /\ attempts = <<>>
            /\ \A n \in 1..Len(exported) :
                LET h == exported[n].solid
                IN  exported[n].mesh =
                        apply_transform(
                            create_mesh_from_geometry_data(<<"solid", h>>,
                                                           elem_data.geometry[h]),
                            elem_data.object_placement)

C5_Witness ==
    /\ work.entry = "add_element"
    /\ pc = "done"
    /\ Len(elem_data.openings) = 2
    /\ opening_meshes = <<>>
    /\ Len(exported) = 2
    /\ elem_data.object_placement # eye4

C5_WitnessDirect ==
    work.entry = "apply_boolean_difference" /\ pc = "done" /\ tool_meshes = <<>>

\* the running host after the i-th difference of the running call
HostAfter(i) == IF i < Len(attempts) THEN attempts[i + 1].host ELSE result_mesh

CallComplete ==
    \/ work.entry = "apply_boolean_difference" /\ pc = "done"
    \/ work.entry = "add_element" /\ pc \in {"solids", "done"} /\ attempts # <<>>

\* the opening solid or host solid the loops of add_element stand at
CurrentItem ==
    LET pairs == OpeningPairs(elem_data.openings, 1)
    IN  IF work.k <= Len(pairs)
        THEN elem_data.openings[pairs[work.k][1]].geometry[pairs[work.k][2]]
        ELSE elem_data.geometry[work.h]

\* C6: a difference that raises leaves the running host as it was, no exception
\* escapes (a call that is abandoned stands at a solid whose synthesis raised), and every later tool is still attempted; with a single throwing tool
\* the original host is returned.
C6_RaiseKeepsHost ==
    /\ pc = "raised" => create_mesh_raises(CurrentItem)
    /\ \A i \in 1..Len(attempts) :
        attempts[i].outcome = "raise" => HostAfter(i) = attempts[i].host
    /\ CallComplete =>
        /\ Len(attempts) = Len(tool_meshes)
        /\ \A i \in 1..Len(attempts) : attempts[i].tool = tool_meshes[i]
    /\ (CallComplete /\ Len(attempts) = 1 /\ attempts[1].outcome = "raise") =>
            result_mesh = attempts[1].host

C6_Witness ==
    /\ work.entry = "apply_boolean_difference"
    /\ pc = "done"
    /\ Len(attempts) = 3
    /\ attempts[1].outcome = "ok"
    /\ attempts[2].outcome = "raise"
    /\ attempts[3].outcome = "ok"
    /\ result_mesh.cuts = << <<"tool", 1>>, <<"tool", 3>> >>

\* C7: a difference whose result is non-watertight or empty (null or without
\* vertices) leaves the running host unchanged; the host is replaced only by a
\* non-empty, watertight result.
C7_OnlyWatertightReplaces ==
    \A i \in 1..Len(attempts) :
        /\ attempts[i].outcome \in {"none", "empty", "open"} =>
                HostAfter(i) = attempts[i].host
        /\ HostAfter(i) # attempts[i].host =>
                (HostAfter(i).watertight /\ HostAfter(i).verts # {})

\* the tools among the first n whose difference was accepted, in list order
RECURSIVE AcceptedTools(_)
AcceptedTools(n) ==
    IF n = 0 THEN <<>>
    ELSE IF attempts[n].outcome \in {"open", "ok"}
    THEN Append(AcceptedTools(n - 1), attempts[n].tool.src)
    ELSE AcceptedTools(n - 1)

\* C8: the tools are tried in list order, each once, each against the result of
\* the previous accepted subtraction; the returned mesh is the host with exactly
\* the accepted tools cut out, in their original order.
C8_SequentialFold ==
    /\ pc = "difference" => Len(attempts) = tool_idx - 1
    /\ \A i \in 1..Len(attempts) :
        /\ attempts[i].tool = tool_meshes[i]
        /\ attempts[i].host.src = attempts[1].host.src
        /\ attempts[i].host.cuts = AcceptedTools(i - 1)
    /\ attempts # <<>> =>
        /\ result_mesh.src = attempts[1].host.src
        /\ result_mesh.cuts = AcceptedTools(Len(attempts))
    /\ CallComplete => Len(attempts) = Len(tool_meshes)
    /\ (CallComplete /\ work.entry = "apply_boolean_difference") =>
        /\ result_mesh.src = mesh.src
        /\ result_mesh.cuts = AcceptedTools(Len(tool_meshes))

C8_Witness ==
    /\ CallComplete
    /\ Len(attempts) = 3
    /\ attempts[1].outcome = "open"
    /\ attempts[2].outcome = "empty"
    /\ attempts[3].outcome = "ok"
    /\ result_mesh.cuts = << <<"tool", 1>>, <<"tool", 3>> >>
    /\ result_mesh.watertight

----------------------------------------------------------------------------
(* Profiles without a vertex list *)

\* a profile outside rectangle, circle and arbitrary-closed-over-a-polyline
UnsupportedProfile(p) ==
    \/ p = None
    \/ /\ p.is_a \notin {"IfcRectangleProfileDef", "IfcCircleProfileDef"}
       /\ ~(/\ p.is_a = "IfcArbitraryClosedProfileDef"
             /\ p.OuterCurve.is_a \in {"IfcPolyline", "IfcIndexedPolyCurve"})

\* C11: for an I-shape, an absent profile, an arbitrary profile over another
\* curve kind or any other profile kind, extract_profile_def returns a dict
\* without a vertex list and raises nothing, and
\* create_mesh_from_geometry_data on a solid sweeping that profile (whatever
\* its depth and position) returns None without raising.
C11_UnsupportedProfileNoMesh ==
    UnsupportedProfile(profile) =>
        /\ pc # "raised"
        /\ pc # "idle" =>
              /\ "profile_vertices" \notin result.keys
              /\ get_profile_vertices(result) = <<>>
        /\ pc \in {"meshed", "extruded"} => mesh = None /\ ~polygon_built

C11_Witness ==
    /\ pc = "meshed"
    /\ profile # None
    /\ profile.is_a = "IfcIShapeProfileDef"
    /\ solid_geom.depth = 3
    /\ solid_geom.profile.dims = <<100, 200, 6, 9>>
    /\ mesh = None

----------------------------------------------------------------------------
(* Solids without a usable depth *)

Depthless(g) == g.depth_is_none \/ g.depth = 0

\* C12: a solid whose depth is zero or missing (None) yields no mesh and no
\* exception: add_element is never abandoned at such a solid and records no
\* mesh for it.
C12_DepthlessSolidSkipped ==
    work.entry = "add_element" =>
        /\ pc = "raised" => ~Depthless(CurrentItem)
        /\ \A n \in 1..Len(exported) : ~Depthless(elem_data.geometry[exported[n].solid])

----------------------------------------------------------------------------
(* IFCGeometryParameterParser.extract_element_geometry and                 *)
(* get_openings_for_element                                                 *)

\* extract_object_placement as a function of the element: the loop of
\* WalkLocalPlacement / WalkBreak / WalkReturn run to its end
RECURSIVE walk_from(_, _, _)
walk_from(e, i, total) ==
    IF i = 0 THEN total
    ELSE IF e.chain[i].is_a # "IfcLocalPlacement" THEN break_result(total)
    ELSE walk_from(e, PlacementRelTo(e, i), walk_link(e.chain[i], total))

extract_object_placement(e) ==
    IF ~has_object_placement(e) THEN no_placement_result ELSE walk_from(e, 1, eye4)

\* the first representation whose identifier is Body, Model or Axis, else None
RECURSIVE first_shape_rep(_, _)
first_shape_rep(reps, i) ==
    IF i > Len(reps) THEN None
    ELSE IF reps[i].RepresentationIdentifier \in {"Body", "Model", "Axis"} THEN reps[i]
    ELSE first_shape_rep(reps, i + 1)

get_element_shape_representation(e) ==
    IF e.Representation = None THEN None
    ELSE first_shape_rep(e.Representation.Representations, 1)

\* {'type': 'IfcFacetedBrep', 'note': 'Complex BREP geometry'}
brep_record == [extract_extruded_area_solid(None) EXCEPT !.type = "IfcFacetedBrep"]

\* the IfcBooleanClippingResult branch: the records one clip item appends
clip_records(FirstOperand) ==
    IF FirstOperand.is_a = "IfcExtrudedAreaSolid"
    THEN << [extract_extruded_area_solid(FirstOperand) EXCEPT !.has_boolean = TRUE] >>
    ELSE <<>>

\* one iteration of the loop over shape_rep.Items: the records it appends
item_records(item) ==
    IF item.is_a = "IfcExtrudedAreaSolid" THEN << extract_extruded_area_solid(item) >>
    ELSE IF item.is_a = "IfcBooleanClippingResult" THEN clip_records(item.FirstOperand)
    ELSE IF item.is_a = "IfcFacetedBrep" THEN << brep_record >>
    ELSE <<>>

\* the loop over an opening's items: extrusion solids only
RECURSIVE opening_geometry(_, _)
opening_geometry(items, i) ==
    IF i > Len(items) THEN <<>>
    ELSE (IF items[i].is_a = "IfcExtrudedAreaSolid"
          THEN << extract_extruded_area_solid(items[i]) >> ELSE <<>>)
         \o opening_geometry(items, i + 1)

opening_data(opening_element) ==
    [global_id |-> opening_element.GlobalId,
     object_placement |-> extract_object_placement(opening_element),
     geometry |-> LET shape_rep == get_element_shape_representation(opening_element)
                  IN  IF shape_rep = None THEN <<>>
                      ELSE opening_geometry(shape_rep.Items, 1)]

keep_every_opening(data) == TRUE

\* if opening_data['geometry']: openings.append(opening_data)
keeps_opening(data) == data.geometry # <<>>

RECURSIVE openings_from(_, _)
openings_from(rels, i) ==
    IF i > Len(rels) THEN <<>>
    ELSE (IF /\ rels[i].is_a = "IfcRelVoidsElement"
             /\ rels[i].RelatedOpeningElement # None
             /\ keeps_opening(opening_data(rels[i].RelatedOpeningElement))
          THEN << opening_data(rels[i].RelatedOpeningElement) >> ELSE <<>>)
         \o openings_from(rels, i + 1)

get_openings_for_element(e) == openings_from(e.HasOpenings, 1)

\* the result dict before the items are read: no 'openings' key yet
new_result(e) ==
    [element_type |-> e.is_a, global_id |-> e.GlobalId, geometry |-> <<>>,
     object_placement |-> extract_object_placement(e), openings |-> <<>>,
     keys |-> {"element_type", "global_id", "name", "geometry", "object_placement"}]

----------------------------------------------------------------------------
(* Inputs of extract_element_geometry *)

MaxItems == 2     \* longest Items list of a host's shape representation

\* a representation item that is not an extrusion solid
GeometricItem(is_a, FirstOperand) ==
    [is_a |-> is_a, SweptArea |-> None, Position |-> None,
     ExtrudedDirection |-> <<0, 0, 1>>, Depth |-> 0, DepthIsNone |-> FALSE,
     FirstOperand |-> FirstOperand]

BooleanClippingResult(FirstOperand) ==
    GeometricItem("IfcBooleanClippingResult", FirstOperand)

FacetedBrep == GeometricItem("IfcFacetedBrep", None)

MappedItem == GeometricItem("IfcMappedItem", None)

WallSolid == ExtrudedAreaSolid(Rectangle(200, 100), Axis3D(<<10, 20, 30>>, None, None), 300)

ItemPool ==
    { WallSolid,
      ExtrudedAreaSolid(ProfileEntity("IfcIShapeProfileDef", 0, 0, 0, <<100, 200, 6, 9>>,
                                      NoCurve), None, 5),
      BooleanClippingResult(WallSolid),
      BooleanClippingResult(BooleanClippingResult(WallSolid)),
      FacetedBrep,
      MappedItem }

RECURSIVE ItemLists(_)
ItemLists(n) ==
    IF n = 0 THEN { <<>> }
    ELSE LET shorter == ItemLists(n - 1)
         IN  shorter \cup { Append(l, it) : l \in { s \in shorter : Len(s) = n - 1 },
                                            it \in ItemPool }

ShapeRepresentation(id, items) == [RepresentationIdentifier |-> id, Items |-> items]

ProductDefinitionShape(reps) == [Representations |-> reps]

Representations ==
    { None, ProductDefinitionShape(<<>>) }
        \cup { ProductDefinitionShape(<< ShapeRepresentation(id, items) >>) :
                 id \in {"Body", "FootPrint"}, items \in ItemLists(MaxItems) }
        \cup { ProductDefinitionShape(<< ShapeRepresentation("Box", << MappedItem >>),
                                         ShapeRepresentation("Model", items) >>) :
                 items \in ItemLists(MaxItems) }

IfcProduct(is_a, GlobalId, chain, Representation, HasOpenings) ==
    [is_a |-> is_a, GlobalId |-> GlobalId,
     ObjectPlacement |-> IF chain = <<>> THEN "null" ELSE "set", chain |-> chain,
     Representation |-> Representation, HasOpenings |-> HasOpenings]

OpeningElement(GlobalId, location, items) ==
    IfcProduct("IfcOpeningElement", GlobalId, << Local(Axis3D(location, None, None)) >>,
               ProductDefinitionShape(<< ShapeRepresentation("Body", items) >>), <<>>)

RelVoidsElement(opening) == [is_a |-> "IfcRelVoidsElement", RelatedOpeningElement |-> opening]

DoorSolid == ExtrudedAreaSolid(Rectangle(2, 2), None, 8)

VoidRelations ==
    { RelVoidsElement(OpeningElement("door", <<1, 0, 1>>, << DoorSolid >>)),
      RelVoidsElement(OpeningElement("window", <<5, 0, 2>>,
                                     << MappedItem, DoorSolid, WallSolid >>)),
      RelVoidsElement(OpeningElement("niche", <<3, 0, 0>>,
                                     << BooleanClippingResult(DoorSolid), FacetedBrep >>)),
      RelVoidsElement(IfcProduct("IfcOpeningElement", "recess", <<>>, None, <<>>)) }

HasOpeningsLists ==
    { <<>> } \cup { <<a>> : a \in VoidRelations }
             \cup { <<a, b>> : a \in VoidRelations, b \in VoidRelations }

HostChains ==
    { <<>>,
      << Local(Axis3D(<<2, 0, 1>>, <<0, 0, 1>>, <<0, 1, 0>>)),
         Local(Axis3D(<<1, 2, 3>>, None, None)) >> }

ExtractElements ==
    { IfcProduct("IfcWall", "wall", chain, r, h) :
        chain \in HostChains, r \in Representations, h \in HasOpeningsLists }

----------------------------------------------------------------------------
(* extract_element_geometry, one loop iteration at a time *)

InitExtract ==
    /\ pc = "idle"
    /\ element \in ExtractElements
    /\ placement = 0
    /\ total_matrix = eye4
    /\ returned = <<>>
    /\ walked = {}
    /\ extracted = None
    /\ item_idx = 0
    /\ IdleProfile
    /\ IdleMesh
    /\ IdleBatch
    /\ IdleViewers

\* extract_element_geometry up to the loop over shape_rep.Items; without a shape
\* representation the result is returned as it is
CallExtractElementGeometry ==
    /\ pc = "idle"
    /\ extracted' = new_result(element)
    /\ IF get_element_shape_representation(element) = None
       THEN pc' = "done" /\ UNCHANGED item_idx
       ELSE pc' = "items" /\ item_idx' = 1
    /\ UNCHANGED <<placementVars, profileVars, meshVars, batchVars, viewerVars>>

\* one iteration of the loop over shape_rep.Items
ExtractItem ==
    /\ pc = "items"
    /\ item_idx <= Len(get_element_shape_representation(element).Items)
    /\ extracted' =
         [extracted EXCEPT !.geometry =
            @ \o item_records(get_element_shape_representation(element).Items[item_idx])]
    /\ item_idx' = item_idx + 1
    /\ UNCHANGED <<pc, placementVars, profileVars, meshVars, batchVars, viewerVars>>

\* result['openings'] = self.get_openings_for_element(element); return result
GetOpeningsForElement ==
    /\ pc = "items"
    /\ item_idx > Len(get_element_shape_representation(element).Items)
    /\ extracted' = [extracted EXCEPT !.openings = get_openings_for_element(element),
                                      !.keys = @ \cup {"openings"}]
    /\ pc' = "done"
    /\ UNCHANGED <<item_idx, placementVars, profileVars, meshVars, batchVars, viewerVars>>

NextExtract ==
    \/ CallExtractElementGeometry
    \/ ExtractItem
    \/ GetOpeningsForElement

SpecExtract == InitExtract /\ [][NextExtract]_vars

----------------------------------------------------------------------------
(* Boolean-clipping items *)

\* the items of the shape representation read so far
ItemsRead ==
    LET shape_rep == get_element_shape_representation(element)
    IN  IF extracted = None \/ shape_rep = None THEN <<>>
        ELSE SubSeq(shape_rep.Items, 1, item_idx - 1)

ClipItems(items) == { i \in 1..Len(items) : items[i].is_a = "IfcBooleanClippingResult" }

TaggedRecords(geometry) == { n \in 1..Len(geometry) : geometry[n].has_boolean }

\* C13: every boolean-clipping item read so far, nested or not, has contributed
\* exactly one record to the geometry list, an extrusion-solid record tagged
\* has_boolean; no other item contributes a tagged record.
C13_OneRecordPerClip ==
    extracted # None =>
        /\ Cardinality(TaggedRecords(extracted.geometry)) = Cardinality(ClipItems(ItemsRead))
        /\ \A n \in TaggedRecords(extracted.geometry) :
              extracted.geometry[n].type = "IfcExtrudedAreaSolid"

----------------------------------------------------------------------------
(* Openings without solids *)

\* the opening has a shape representation with an extrusion solid among its items
HasSolid(opening) ==
    /\ opening # None
    /\ get_element_shape_representation(opening) # None
    /\ \E i \in 1..Len(get_element_shape_representation(opening).Items) :
          get_element_shape_representation(opening).Items[i].is_a = "IfcExtrudedAreaSolid"

\* GlobalIds of the related openings that have a solid, in relation order
RECURSIVE SolidOpeningIds(_, _)
SolidOpeningIds(rels, i) ==
    IF i > Len(rels) THEN <<>>
    ELSE (IF HasSolid(rels[i].RelatedOpeningElement)
          THEN << rels[i].RelatedOpeningElement.GlobalId >> ELSE <<>>)
         \o SolidOpeningIds(rels, i + 1)

\* C14: every entry of the openings list has at least one solid; an opening
\* without shape representation or without extrusion solid is left out, and the
\* remaining openings are returned in relation order.
C14_OpeningsHaveSolids ==
    (pc = "done" /\ "openings" \in extracted.keys) =>
        /\ \A n \in 1..Len(extracted.openings) : extracted.openings[n].geometry # <<>>
        /\ [n \in 1..Len(extracted.openings) |-> extracted.openings[n].global_id]
              = SolidOpeningIds(element.HasOpenings, 1)

C14_Witness ==
    /\ pc = "done"
    /\ "openings" \in extracted.keys
    /\ Len(element.HasOpenings) = 2
    /\ element.HasOpenings[1].RelatedOpeningElement.GlobalId = "recess"
    /\ element.HasOpenings[2].RelatedOpeningElement.GlobalId = "window"
    /\ Len(extracted.openings) = 1
    /\ extracted.openings[1].global_id = "window"
    /\ Len(extracted.openings[1].geometry) = 2

----------------------------------------------------------------------------
(* Elements without extractable solids *)

\* no representation, no Body/Model/Axis representation, or no item that is an
\* extrusion solid or a boolean clip
NoExtrusionItem(e) ==
    \/ get_element_shape_representation(e) = None
    \/ \A i \in 1..Len(get_element_shape_representation(e).Items) :
          get_element_shape_representation(e).Items[i].is_a
              \notin {"IfcExtrudedAreaSolid", "IfcBooleanClippingResult"}

\* C15: for an element without any extrusion item (no representation, no
\* Body/Model/Axis representation, an empty item list, or only unsupported
\* items such as faceted BREPs) extract_element_geometry returns a record whose
\* geometry list is empty.
C15_NoSolidsEmptyList ==
    (pc = "done" /\ NoExtrusionItem(element)) => extracted.geometry = <<>>

----------------------------------------------------------------------------
(* Vertex lists too short for a polygon *)

\* the vertex list handed to extrude_profile by the call that has just ended
VertexListExtruded ==
    IF solid_geom = None THEN get_profile_vertices(result)
    ELSE get_profile_vertices(solid_geom.profile)

\* C16: for a vertex list with fewer than 3 vertices (the empty list included)
\* extrude_profile returns None and raises nothing; Polygon(...) is called
\* exactly when the list has at least 3 vertices.
C16_FewVerticesNoPolygon ==
    /\ pc \in {"extruded", "meshed", "raised"} =>
          (Len(VertexListExtruded) < 3 => pc # "raised" /\ mesh = None /\ ~polygon_built)
    /\ pc \in {"extruded", "meshed", "raised"} =>
          (polygon_built => Len(VertexListExtruded) >= 3)
    /\ (pc = "extruded" /\ Len(VertexListExtruded) >= 3) => polygon_built

C16_Witness ==
    /\ pc = "extruded"
    /\ Len(get_profile_vertices(result)) = 2
    /\ "profile_vertices" \in result.keys
    /\ mesh = None
    /\ ~polygon_built

----------------------------------------------------------------------------
(* One failing solid among the solids of an element *)

\* polygon construction or extrusion fails for the solid
GeometricFailure(g) ==
    /\ g.type = "IfcExtrudedAreaSolid"
    /\ ~too_few_vertices(get_profile_vertices(g.profile))
    /\ ~g.depth_is_none
    /\ extrusion_fails(get_profile_vertices(g.profile), g.depth)

\* indices of the first n solids that a mesh can be synthesized from
RECURSIVE SynthesizedSolids(_, _)
SynthesizedSolids(geometry, n) ==
    IF n = 0 THEN <<>>
    ELSE SynthesizedSolids(geometry, n - 1)
         \o (IF /\ ~create_mesh_raises(geometry[n])
                /\ create_mesh_from_geometry_data(<<"solid", n>>, geometry[n]) # None
             THEN << n >> ELSE <<>>)

\* C17: a solid whose polygon construction or extrusion fails gets no mesh
\* and never makes add_element raise; every other solid the loop has passed is
\* recorded, in order, after every opening mesh has been subtracted from it.
C17_FailingSolidSkipped ==
    work.entry = "add_element" =>
        /\ pc = "raised" => ~GeometricFailure(CurrentItem)
        /\ \A h \in 1..Len(elem_data.geometry) :
              GeometricFailure(elem_data.geometry[h]) =>
                create_mesh_from_geometry_data(<<"solid", h>>, elem_data.geometry[h]) = None
        /\ [n \in 1..Len(exported) |-> exported[n].solid]
              = SynthesizedSolids(elem_data.geometry,
                                  IF work.h = 0 THEN 0 ELSE work.h - 1)
        /\ \A n \in 1..Len(exported) :
              /\ exported[n].mesh.src = <<"solid", exported[n].solid>>
              /\ Len(exported[n].mesh.cuts) <= Len(opening_meshes)
              /\ \A c \in 1..Len(exported[n].mesh.cuts) :
                    \E t \in 1..Len(opening_meshes) :
                        opening_meshes[t].src = exported[n].mesh.cuts[c]

C17_Witness ==
    /\ work.entry = "add_element"
    /\ pc = "done"
    /\ Len(elem_data.geometry) = 2
    /\ GeometricFailure(elem_data.geometry[1])
    /\ Shoelace(get_profile_vertices(elem_data.geometry[1].profile), 3) = 0
    /\ elem_data.geometry[1].depth = 2
    /\ Len(exported) = 1
    /\ exported[1].solid = 2
    /\ Len(opening_meshes) = 1
    /\ exported[1].mesh.cuts = << opening_meshes[1].src >>

----------------------------------------------------------------------------
(* parse_all_elements_with_geometry and the add_element loop of            *)
(* visualize_ifc_with_trimesh                                               *)

RECURSIVE all_item_records(_, _)
all_item_records(items, i) ==
    IF i > Len(items) THEN <<>>
    ELSE item_records(items[i]) \o all_item_records(items, i + 1)

\* extract_element_geometry as a function of the element: CallExtractElementGeometry,
\* ExtractItem and GetOpeningsForElement run to the return
extract_element_geometry(e) ==
    LET shape_rep == get_element_shape_representation(e)
    IN  IF shape_rep = None THEN new_result(e)
        ELSE [new_result(e) EXCEPT !.geometry = all_item_records(shape_rep.Items, 1),
                                   !.openings = get_openings_for_element(e),
                                   !.keys = @ \cup {"openings"}]

\* add_element leaves through an exception: the synthesis of one of its opening
\* solids or host solids raises (no other statement of its loops does)
add_element_raises(data) ==
    \/ \E o \in 1..Len(data.openings) : \E g \in 1..Len(data.openings[o].geometry) :
          create_mesh_raises(data.openings[o].geometry[g])
    \/ \E h \in 1..Len(data.geometry) : create_mesh_raises(data.geometry[h])

MaxBatch == 3     \* elements of the IFC model

BodyOf(items) == ProductDefinitionShape(<< ShapeRepresentation("Body", items) >>)

ModelElements ==
    { IfcProduct("IfcWall", "wall", <<>>, BodyOf(<< WallSolid >>),
                 << RelVoidsElement(OpeningElement("door", <<1, 0, 1>>, << DoorSolid >>)) >>),
      IfcProduct("IfcSlab", "slab", <<>>,
                 BodyOf(<< ExtrudedAreaSolidNoDepth(Rectangle(200, 100), None) >>), <<>>),
      IfcProduct("IfcColumn", "column", <<>>, BodyOf(<< FacetedBrep >>), <<>>),
      IfcProduct("IfcBeam", "beam", <<>>, None, <<>>) }

RECURSIVE Batches(_)
Batches(n) ==
    IF n = 0 THEN { <<>> }
    ELSE LET shorter == Batches(n - 1)
         IN  shorter \cup { Append(l, e) : l \in { s \in shorter : Len(s) = n - 1 },
                                           e \in ModelElements }

InitBatch ==
    /\ pc = "idle"
    /\ batch \in Batches(MaxBatch)
    /\ batch_idx = 0
    /\ elements_data = <<>>
    /\ added = <<>>
    /\ IdlePlacement
    /\ IdleProfile
    /\ IdleMesh
    /\ IdleExtract
    /\ IdleViewers

\* visualize_ifc_with_trimesh calls parser.parse_all_elements_with_geometry()
CallParseAllElements ==
    /\ pc = "idle"
    /\ pc' = "parsing"
    /\ batch_idx' = 1
    /\ UNCHANGED <<batch, elements_data, added, placementVars, profileVars, meshVars,
                   extractVars, viewerVars>>

\* one iteration of the loop over the elements of the model
ParseElement ==
    /\ pc = "parsing"
    /\ batch_idx <= Len(batch)
    /\ LET geom_data == extract_element_geometry(batch[batch_idx])
       IN  elements_data' = IF geom_data.geometry # <<>>
                            THEN Append(elements_data, geom_data)
                            ELSE elements_data
    /\ batch_idx' = batch_idx + 1
    /\ UNCHANGED <<pc, batch, added, placementVars, profileVars, meshVars, extractVars, viewerVars>>

\* return elements_data; the loop over elements_data starts
ParseReturn ==
    /\ pc = "parsing"
    /\ batch_idx > Len(batch)
    /\ pc' = "adding"
    /\ batch_idx' = 1
    /\ UNCHANGED <<batch, elements_data, added, placementVars, profileVars, meshVars,
                   extractVars, viewerVars>>

\* one iteration of the loop: visualizer.add_element(elem_data, ...)
AddElement ==
    /\ pc = "adding"
    /\ batch_idx <= Len(elements_data)
    /\ IF add_element_raises(elements_data[batch_idx])
       THEN pc' = "raised" /\ UNCHANGED <<batch_idx, added>>
       ELSE /\ added' = Append(added, elements_data[batch_idx].global_id)
            /\ batch_idx' = batch_idx + 1
            /\ UNCHANGED pc
    /\ UNCHANGED <<batch, elements_data, placementVars, profileVars, meshVars, extractVars, viewerVars>>

\* the loop is over: the visualization is ready
BatchDone ==
    /\ pc = "adding"
    /\ batch_idx > Len(elements_data)
    /\ pc' = "done"
    /\ UNCHANGED <<batch, batch_idx, elements_data, added, placementVars, profileVars,
                   meshVars, extractVars, viewerVars>>

NextBatch ==
    \/ CallParseAllElements
    \/ ParseElement
    \/ ParseReturn
    \/ AddElement
    \/ BatchDone

SpecBatch == InitBatch /\ [][NextBatch]_vars

----------------------------------------------------------------------------
(* One failing element in a batch *)

Range(f) == { f[i] : i \in DOMAIN f }

\* add_element can produce something for the element and does not raise for it
Addable(e) ==
    /\ extract_element_geometry(e).geometry # <<>>
    /\ ~add_element_raises(extract_element_geometry(e))

\* C18: a batch run is never abandoned, and once it has ended every element of
\* the batch whose own extraction and synthesis succeed has been added,
\* whatever the other elements of the batch are.
C18_BatchSurvivesFailure ==
    /\ pc # "raised"
    /\ pc = "done" => \A i \in 1..Len(batch) :
                        Addable(batch[i]) => batch[i].GlobalId \in Range(added)

----------------------------------------------------------------------------
(* Placement chains with unrecognized links *)

\* index of the first link that is not an IfcLocalPlacement, Len + 1 without one
RECURSIVE FirstNonLocal(_, _)
FirstNonLocal(chain, i) ==
    IF i > Len(chain) THEN i
    ELSE IF chain[i].is_a # "IfcLocalPlacement" THEN i
    ELSE FirstNonLocal(chain, i + 1)

\* the link carries a relative placement of a recognized kind
Contributes(link) ==
    /\ link.RelativePlacement # None
    /\ link.RelativePlacement.is_a \in local_placement_kinds

\* p mapped by the contributing links among i..last, innermost first
RECURSIVE MapVisited(_, _, _, _)
MapVisited(chain, i, last, p) ==
    IF i > last THEN p
    ELSE MapVisited(chain, i + 1, last,
                    IF Contributes(chain[i])
                    THEN transform_point(LocalMatrixOf(chain[i]), p) ELSE p)

\* C19: the walk never raises; at the first link that is not a local placement
\* it returns the transform of the links before it (the identity if that is the
\* very first link); a local link whose relative placement is missing or of an
\* unrecognized kind contributes nothing and the walk goes on to its parent.
C19_StopsAtUnrecognizedLink ==
    /\ pc \in {"idle", "walk"}
    /\ \A k \in 1..Len(returned) :
        has_object_placement(element) =>
            /\ returned[k][4] = <<0, 0, 0, 1>>
            /\ \A p \in ProbePoints :
                transform_point(returned[k], p)
                    = MapVisited(element.chain, 1, FirstNonLocal(element.chain, 1) - 1, p)
            /\ element.chain[1].is_a # "IfcLocalPlacement" => returned[k] = eye4

C19_Witness ==
    /\ Len(returned) >= 1
    /\ Len(element.chain) = 3
    /\ element.chain[1].is_a = "IfcLocalPlacement"
    /\ Contributes(element.chain[1])
    /\ element.chain[1].RelativePlacement.RefDirection = <<0, 1, 0>>
    /\ element.chain[2].is_a = "IfcLocalPlacement"
    /\ ~Contributes(element.chain[2])
    /\ element.chain[3].is_a = "IfcGridPlacement"
    /\ returned[1] = LocalMatrixOf(element.chain[1])
    /\ returned[1] # eye4

----------------------------------------------------------------------------
(* The rotation block of get_placement_matrix *)

Dot(a, b) == a[1] * b[1] + a[2] * b[2] + a[3] * b[3]

Column(M, c) == << M[1][c], M[2][c], M[3][c] >>

\* the element's placement is a single local link with a 3D relative placement
SingleAxis3D(e) ==
    /\ has_object_placement(e)
    /\ Len(e.chain) = 1
    /\ e.chain[1].is_a = "IfcLocalPlacement"
    /\ e.chain[1].RelativePlacement # None
    /\ e.chain[1].RelativePlacement.is_a = "IfcAxis2Placement3D"

\* C20: whatever axis and ref_direction are (perpendicular, parallel, zero or
\* defaulted), the matrix get_placement_matrix returns for a single 3D link has
\* three unit, mutually perpendicular rotation columns, its third column is the
\* normalized axis (global Z for a zero axis) and its fourth is the location.
C20_OrthonormalColumns ==
    \A k \in 1..Len(returned) :
        SingleAxis3D(element) =>
            LET data == extract_axis2_placement_3d(element.chain[1].RelativePlacement)
                X == Column(returned[k], 1)
                Y == Column(returned[k], 2)
                Z == Column(returned[k], 3)
            IN  /\ NormSq(X) = 1 /\ NormSq(Y) = 1 /\ NormSq(Z) = 1
                /\ Dot(X, Y) = 0 /\ Dot(X, Z) = 0 /\ Dot(Y, Z) = 0
                /\ Z = IF norm(data.axis) > 0
                       THEN scale_down(data.axis, norm(data.axis)) ELSE <<0, 0, 1>>
                /\ Column(returned[k], 4) = data.location

\* ---------------------------------------------------------------------------
\* colab_viewer.visualize_ifc: load, collect the elements that carry a
\* Custom_Mesh, lay the figure out, build the table UI when asked to.
\* ---------------------------------------------------------------------------

MaxViewerElements == 3

OtherVarsOfViewer == <<placementVars, profileVars, meshVars, extractVars, batchVars>>

IdleOthersOfViewer ==
    /\ IdlePlacement
    /\ IdleProfile
    /\ IdleMesh
    /\ IdleExtract
    /\ IdleBatch

\* what extract_custom_mesh_from_entity finds on the elements of the hierarchy,
\* in iteration order: TRUE when the element carries a Custom_Mesh
RECURSIVE MeshFlagLists(_)
MeshFlagLists(n) ==
    IF n = 0 THEN { <<>> }
    ELSE LET shorter == MeshFlagLists(n - 1)
         IN  shorter \cup { Append(l, b) : l \in { s \in shorter : Len(s) = n - 1 },
                                           b \in BOOLEAN }

\* the values visualize_ifc returns
ViewerWithUi == <<"visualizer", "hierarchy", "ui">>
ViewerOnly == <<"visualizer", "hierarchy">>

\* what loading the model, and what importing and building the table UI, can do
LoadOutcomes == {"ok", "Exception"}
UiOutcomes == {"ok", "ImportError", "Exception"}

InitViewer ==
    /\ pc = "idle"
    /\ \E show_ui \in BOOLEAN, flags \in MeshFlagLists(MaxViewerElements) :
          viewer = [show_ui |-> show_ui, elements |-> flags, idx |-> 0,
                    processed_count |-> 0, returned |-> None]
    /\ table_ui = None /\ gradio = None /\ xform = None
    /\ IdleOthersOfViewer

\* IFCDownloader.download_and_load and the construction of the hierarchy, inside
\* the outer try: any exception is caught at the end and None is returned
LoadModel ==
    /\ pc = "idle"
    /\ viewer # None
    /\ \E outcome \in LoadOutcomes :
          IF outcome = "ok"
          THEN pc' = "elements" /\ viewer' = [viewer EXCEPT !.idx = 1]
          ELSE pc' = "viewed" /\ viewer' = [viewer EXCEPT !.returned = None]
    /\ UNCHANGED <<table_ui, gradio, xform, OtherVarsOfViewer>>

\* one iteration of the loop over the elements
ProcessElement ==
    /\ pc = "elements"
    /\ viewer.idx <= Len(viewer.elements)
    /\ viewer' = [viewer EXCEPT
                    !.idx = @ + 1,
                    !.processed_count = IF viewer.elements[viewer.idx] THEN @ + 1 ELSE @]
    /\ UNCHANGED <<pc, table_ui, gradio, xform, OtherVarsOfViewer>>

\* after the loop: nothing processed returns None, else configure_layout
CheckProcessed ==
    /\ pc = "elements"
    /\ viewer.idx > Len(viewer.elements)
    /\ IF viewer.processed_count = 0
       THEN pc' = "viewed" /\ viewer' = [viewer EXCEPT !.returned = None]
       ELSE pc' = "layout" /\ UNCHANGED viewer
    /\ UNCHANGED <<table_ui, gradio, xform, OtherVarsOfViewer>>

\* the branch on show_ui, with the inner try around the UI
ShowUi ==
    /\ pc = "layout"
    /\ pc' = "viewed"
    /\ IF viewer.show_ui
       THEN \E outcome \in UiOutcomes :
               viewer' = [viewer EXCEPT
                            !.returned = IF outcome = "ok" THEN ViewerWithUi ELSE ViewerOnly]
       ELSE viewer' = [viewer EXCEPT !.returned = ViewerOnly]
    /\ UNCHANGED <<table_ui, gradio, xform, OtherVarsOfViewer>>

NextViewer ==
    \/ LoadModel
    \/ ProcessElement
    \/ CheckProcessed
    \/ ShowUi

SpecViewer == InitViewer /\ [][NextViewer]_vars

\* C21: visualize_ifc returns the 3-tuple (visualizer, hierarchy, ui) whenever it
\* is called with show_ui=True and the 2-tuple (visualizer, hierarchy) whenever
\* it is called with show_ui=False.
C21_ReturnsTupleOfShowUi ==
    pc = "viewed" =>
        viewer.returned = IF viewer.show_ui THEN ViewerWithUi ELSE ViewerOnly

\* ---------------------------------------------------------------------------
\* extract_object_placement on chains whose PlacementRelTo links form a cycle
\* ---------------------------------------------------------------------------

MaxCycle == 2     \* placements on a chain that may refer back to itself

\* placements at the origin: walking them any number of times keeps total_matrix
\* among the axis-aligned rotations
CycleLinks ==
    { Local(None),
      Local(Axis2D(None)),
      Local(Axis3D(None, <<0, 0, 0>>, None)),
      Local(Axis3D(<<0, 0, 0>>, <<0, 0, 1>>, <<0, 1, 0>>)),
      [is_a |-> "IfcGridPlacement", RelativePlacement |-> None] }

RECURSIVE CycleChains(_)
CycleChains(n) ==
    IF n = 0 THEN { <<>> }
    ELSE LET shorter == CycleChains(n - 1)
         IN  shorter \cup { Append(c, l) : c \in { s \in shorter : Len(s) = n - 1 },
                                           l \in CycleLinks }

\* loops_to = 0: the last placement has no PlacementRelTo (a well-formed chain);
\* loops_to = k: it refers back to the k-th placement of the chain
CyclicElements ==
    { [ObjectPlacement |-> "set", chain |-> c, loops_to |-> k] :
          c \in CycleChains(MaxCycle) \ { <<>> }, k \in 0..MaxCycle }
      \cup { [ObjectPlacement |-> "null", chain |-> <<>>, loops_to |-> 0] }

InitCycle ==
    /\ pc = "idle"
    /\ element \in { e \in CyclicElements : e.loops_to <= Len(e.chain) }
    /\ placement = 0
    /\ total_matrix = eye4
    /\ returned = <<>>
    /\ walked = {}
    /\ IdleProfile
    /\ IdleMesh
    /\ IdleExtract
    /\ IdleBatch
    /\ IdleViewers

SpecCycle == InitCycle /\ [][NextPlacement]_vars

\* C22: extract_object_placement terminates for every input placement chain,
\* including a chain whose PlacementRelTo links form a cycle. The loop's state is
\* (placement, total_matrix) and its body is deterministic, so a terminating walk
\* is never at a loop head it has already been at during the same call.
C22_WalkNeverRepeats == pc = "walk" => <<placement, total_matrix>> \notin walked

\* ---------------------------------------------------------------------------
\* The rotation of a solid's placement against the rotation of section 3
\* ---------------------------------------------------------------------------

\* the upper-left 3x3 block of a 4x4 matrix
RotationBlock(m) == << SubSeq(m[1], 1, 3), SubSeq(m[2], 1, 3), SubSeq(m[3], 1, 3) >>

\* a solid has been extracted and its mesh is being, or has been, synthesized
SolidPositionRead ==
    /\ pc \in {"solid", "meshed"}
    /\ solid_geom # None
    /\ solid_geom.type = "IfcExtrudedAreaSolid"

\* C23: for every axis / ref_direction pair, the rotation built by
\* create_rotation_matrix for a solid's placement equals the rotation block built
\* by get_placement_matrix for the same pair, including for parallel or
\* zero-length vectors (a rotation holding NaN equals no matrix).
C23_SameRotationAsPlacement ==
    SolidPositionRead =>
        /\ ~rotation_is_nan(solid_geom.position.axis, solid_geom.position.ref_direction)
        /\ RotationBlock(create_rotation_matrix(solid_geom.position.axis,
                                                solid_geom.position.ref_direction))
             = RotationBlock(get_placement_matrix(solid_geom.position))

\* ---------------------------------------------------------------------------
\* The opening path against the element path
\* ---------------------------------------------------------------------------

\* the entities related to the element as openings, in relation order
RelatedOpenings == [n \in 1..Len(element.HasOpenings) |->
                        element.HasOpenings[n].RelatedOpeningElement]

\* C24: for every entity related as an opening, the solids get_openings_for_element
\* extracts for it are the same, in the same order, as the solids
\* extract_element_geometry extracts for that entity as an ordinary element: an
\* entity with solids on the element path is in the openings list with those solids.
C24_OpeningPathIsElementPath ==
    (pc = "done" /\ "openings" \in extracted.keys) =>
        \A n \in 1..Len(RelatedOpenings) :
            LET as_element == extract_element_geometry(RelatedOpenings[n]).geometry
            IN  as_element # <<>> =>
                    \E k \in 1..Len(extracted.openings) :
                        /\ extracted.openings[k].global_id = RelatedOpenings[n].GlobalId
                        /\ extracted.openings[k].geometry = as_element

\* ---------------------------------------------------------------------------
\* Openings are placed by their own chain
\* ---------------------------------------------------------------------------

\* the element with its placement chain replaced
WithChain(e, chain) ==
    [e EXCEPT !.chain = chain, !.ObjectPlacement = IF chain = <<>> THEN "null" ELSE "set"]

\* the translation an opening's own chain amounts to, read off the entity
OwnLocation(opening) == opening.chain[1].RelativePlacement.Location

\* the related opening entity an entry of the openings list was extracted from
EntityOf(entry) ==
    CHOOSE o \in { RelatedOpenings[n] : n \in 1..Len(RelatedOpenings) } :
        o.GlobalId = entry.global_id

\* C25: each opening's object_placement is resolved from the opening's own chain,
\* each opening tool mesh of add_element is the opening's solid moved by that
\* placement only, and the tool meshes are the same whatever placement chain the
\* host has.
C25_OpeningsPlacedByOwnChain ==
    (pc = "done" /\ "openings" \in extracted.keys) =>
        /\ \A k \in 1..Len(extracted.openings) :
              extracted.openings[k].object_placement
                  = Translation(OwnLocation(EntityOf(extracted.openings[k])))
        /\ \A k \in 1..Len(synthesized_openings(extracted, 1)) :
              LET m == synthesized_openings(extracted, 1)[k]
                  opening == extracted.openings[m.src[2]]
                  own == OwnLocation(EntityOf(opening))
                  unplaced == create_mesh_from_geometry_data(m.src,
                                                             opening.geometry[m.src[3]])
              IN  m.verts = { <<p[1] + own[1], p[2] + own[2], p[3] + own[3]>> :
                                  p \in unplaced.verts }
        /\ \A chain \in HostChains :
              synthesized_openings(extract_element_geometry(WithChain(element, chain)), 1)
                  = synthesized_openings(extracted, 1)

C25_Witness ==
    /\ pc = "done"
    /\ "openings" \in extracted.keys
    /\ element.chain # <<>>
    /\ extracted.object_placement # eye4
    /\ Len(extracted.openings) = 2
    /\ extracted.openings[1].global_id = "door"
    /\ extracted.openings[2].global_id = "window"
    /\ Len(synthesized_openings(extracted, 1)) = 3

\* ---------------------------------------------------------------------------
\* Arbitrary closed profiles
\* ---------------------------------------------------------------------------

\* the source point sequence of an arbitrary closed profile
SourcePoints(p) ==
    IF p.OuterCurve.is_a = "IfcPolyline" THEN p.OuterCurve.Points
    ELSE p.OuterCurve.Points.CoordList

HasPointSequence(p) ==
    /\ p # None
    /\ p.is_a = "IfcArbitraryClosedProfileDef"
    /\ p.OuterCurve.is_a \in {"IfcPolyline", "IfcIndexedPolyCurve"}

\* C26: for an arbitrary closed profile the extracted vertex sequence has the
\* length and the order of the source point sequence, no point removed, merged or
\* reordered, and each 2-component point is padded with z = 0.
C26_VerticesVerbatim ==
    (pc = "done" /\ HasPointSequence(profile)) =>
        /\ "profile_vertices" \in result.keys
        /\ Len(result.profile_vertices) = Len(SourcePoints(profile))
        /\ \A n \in 1..Len(SourcePoints(profile)) :
              LET q == SourcePoints(profile)[n]
                  v == result.profile_vertices[n]
              IN  /\ Len(v) = 3
                  /\ v[1] = q[1]
                  /\ v[2] = q[2]
                  /\ v[3] = IF Len(q) = 2 THEN 0 ELSE q[3]

\* a polyline with a repeated point, three collinear points and a 3-component point
C26_Witness ==
    /\ pc = "done"
    /\ HasPointSequence(profile)
    /\ profile.OuterCurve.is_a = "IfcPolyline"
    /\ SourcePoints(profile) = << <<0, 0>>, <<0, 0>>, <<4, 0>>, <<4, 0>>, <<0, 2, 0>> >>
    /\ Len(result.profile_vertices) = 5

\* ---------------------------------------------------------------------------
\* The extrusion direction
\* ---------------------------------------------------------------------------

\* the solid dict with another extrusion direction
WithDirection(gd, dir) == [gd EXCEPT !.extrusion_direction = dir]

\* the rings at 0 and at depth along local Z, placed by the solid's position
SweptAlongLocalZ(gd) ==
    { transform_point(get_placement_matrix(gd.position), <<v[1], v[2], z>>) :
          v \in Range(get_profile_vertices(gd.profile)), z \in {0, gd.depth} }

\* C27: the mesh returned by extrude_profile does not depend on the solid's
\* extrusion_direction: solids that differ only in extrusion_direction give the
\* same mesh, the profile being swept by depth along the local Z axis of the
\* solid's placement.
C27_DirectionIgnored ==
    (pc = "meshed" /\ solid_geom # None) =>
        /\ \A dir \in ExtrudedDirections :
              create_mesh_from_geometry_data(<<"solid">>, WithDirection(solid_geom, dir)) = mesh
        /\ (mesh # None /\ ~mesh.nan) => mesh.verts = SweptAlongLocalZ(solid_geom)

C27_Witness ==
    /\ pc = "meshed"
    /\ solid_geom # None
    /\ solid_geom.extrusion_direction = <<1, 0, -1>>
    /\ solid_geom.depth = 3
    /\ solid_geom.position.axis = <<1, 0, 0>>
    /\ mesh # None
    /\ ~mesh.nan

\* ---------------------------------------------------------------------------
\* HierarchicalTableUI over Visualizer3D: filters, checkboxes, trace visibility
\* ---------------------------------------------------------------------------

MaxMeshEntries == 2     \* mesh entries in the Custom_Mesh of one element

\* full_name = storey/ifc_type/element_name, as <<storey, ifc_type, element_name>>
FullNames ==
    << <<"Storey_01", "IfcWall", "wall_a">>,
       <<"Storey_01", "IfcSlab", "slab_a">>,
       <<"Storey_02", "IfcWall", "wall_b">> >>

FilterStoreys == {"All", "Storey_01", "Storey_02"}
FilterTypes == {"All", "IfcWall", "IfcSlab"}

\* add_mesh_from_element: one trace per mesh entry, all named full_name and
\* visible; visibility[full_name] = True; mesh_dict[full_name] is the last Mesh3d
\* object handed to fig.add_trace. plotly's add_trace stores a copy, so the
\* objects of mesh_dict are not the traces of fig.data: their visible flag is kept
\* apart, in the mesh_dict field
RECURSIVE add_meshes(_, _)
add_meshes(counts, n) ==
    IF n > Len(FullNames) THEN <<>>
    ELSE [k \in 1..counts[n] |-> [name |-> FullNames[n], visible |-> TRUE]]
         \o add_meshes(counts, n + 1)

\* index of the first trace of fig.data with that name, 0 when there is none
first_trace(traces, full_name) ==
    IF \E i \in 1..Len(traces) : traces[i].name = full_name
    THEN CHOOSE i \in 1..Len(traces) :
             /\ traces[i].name = full_name
             /\ \A j \in 1..(i - 1) : traces[j].name # full_name
    ELSE 0

\* for trace in fig.data: if trace.name == full_name: trace.visible = ...; break
show_trace(traces, full_name, is_visible) ==
    IF first_trace(traces, full_name) = 0 THEN traces
    ELSE [traces EXCEPT ![first_trace(traces, full_name)].visible = is_visible]

\* is_visible of _apply_filters
passes_filters(full_name, filter_storey, filter_ifc_type) ==
    /\ filter_storey = "All" \/ full_name[1] = filter_storey
    /\ filter_ifc_type = "All" \/ full_name[2] = filter_ifc_type

\* the loop of _apply_filters over mesh_dict, from its n-th key on
RECURSIVE apply_filters_from(_, _, _, _)
apply_filters_from(ui, filter_storey, filter_ifc_type, n) ==
    IF n > Len(FullNames) THEN ui
    ELSE LET full_name == FullNames[n]
             is_visible == passes_filters(full_name, filter_storey, filter_ifc_type)
             shown == [ui EXCEPT
                         !.visibility[full_name] = is_visible,
                         !.traces = IF ui.is_figure_widget
                                    THEN show_trace(@, full_name, is_visible) ELSE @,
                         !.mesh_dict[full_name] = IF ui.is_figure_widget
                                                  THEN @ ELSE is_visible,
                         !.all_checkboxes[full_name] = is_visible]
         IN  apply_filters_from(shown, filter_storey, filter_ifc_type, n + 1)

\* the loop of _on_select_all_change over related_checkboxes: the checkboxes of
\* one storey and type
RECURSIVE select_all_from(_, _, _, _)
select_all_from(ui, group, new_value, n) ==
    IF n > Len(FullNames) THEN ui
    ELSE LET full_name == FullNames[n]
             shown == [ui EXCEPT
                         !.all_checkboxes[full_name] = new_value,
                         !.visibility[full_name] = new_value,
                         !.mesh_dict[full_name] = IF ui.is_figure_widget
                                                  THEN @ ELSE new_value,
                         !.traces = show_trace(@, full_name, new_value)]
         IN  select_all_from(IF <<full_name[1], full_name[2]>> = group THEN shown ELSE ui,
                             group, new_value, n + 1)

Groups == { <<FullNames[n][1], FullNames[n][2]>> : n \in 1..Len(FullNames) }

\* the UI as create_ui leaves it: every trace visible, every checkbox checked
InitTableUi ==
    /\ pc = "idle"
    /\ \E counts \in [1..Len(FullNames) -> 1..MaxMeshEntries], widget \in BOOLEAN :
          table_ui = [is_figure_widget |-> widget,
                      traces |-> add_meshes(counts, 1),
                      visibility |-> [f \in Range(FullNames) |-> TRUE],
                      mesh_dict |-> [f \in Range(FullNames) |-> TRUE],
                      all_checkboxes |-> [f \in Range(FullNames) |-> TRUE],
                      select_all |-> [g \in Groups |-> TRUE],
                      filter_storey |-> None, filter_ifc_type |-> None]
    /\ viewer = None /\ gradio = None /\ xform = None
    /\ IdleOthersOfViewer

\* _apply_filters(b) with the two dropdown values
ApplyFilters ==
    /\ table_ui # None
    /\ \E filter_storey \in FilterStoreys, filter_ifc_type \in FilterTypes :
          table_ui' = apply_filters_from(
                          [table_ui EXCEPT !.filter_storey = filter_storey,
                                           !.filter_ifc_type = filter_ifc_type],
                          filter_storey, filter_ifc_type, 1)
    /\ UNCHANGED <<pc, viewer, gradio, xform, OtherVarsOfViewer>>

\* _on_checkbox_change: the user toggles the checkbox of one element
OnCheckboxChange ==
    /\ table_ui # None
    /\ \E full_name \in Range(FullNames) :
          LET is_visible == ~table_ui.all_checkboxes[full_name]
          IN  table_ui' = [table_ui EXCEPT
                             !.all_checkboxes[full_name] = is_visible,
                             !.visibility[full_name] = is_visible,
                             !.mesh_dict[full_name] = IF table_ui.is_figure_widget
                                                      THEN @ ELSE is_visible,
                             !.traces = show_trace(@, full_name, is_visible)]
    /\ UNCHANGED <<pc, viewer, gradio, xform, OtherVarsOfViewer>>

\* _on_select_all_change: the user toggles the select-all checkbox of one group
OnSelectAllChange ==
    /\ table_ui # None
    /\ \E group \in Groups :
          LET new_value == ~table_ui.select_all[group]
          IN  table_ui' = select_all_from([table_ui EXCEPT !.select_all[group] = new_value],
                                          group, new_value, 1)
    /\ UNCHANGED <<pc, viewer, gradio, xform, OtherVarsOfViewer>>

NextTableUi ==
    \/ ApplyFilters
    \/ OnCheckboxChange
    \/ OnSelectAllChange

SpecTableUi == InitTableUi /\ [][NextTableUi]_vars

\* C28: after any sequence of filter applications, checkbox toggles and
\* select-all toggles, every 3D trace in the figure has visible equal to
\* visualizer.visibility[trace.name], including when several traces share one
\* element name.
C28_TracesFollowVisibility ==
    table_ui # None =>
        \A i \in 1..Len(table_ui.traces) :
            table_ui.traces[i].visible = table_ui.visibility[table_ui.traces[i].name]

\* ---------------------------------------------------------------------------
\* GradioIFCViewer.launch: the elements table, its filters, row selection
\* ---------------------------------------------------------------------------

\* rows _build_element_data can append, in hierarchy order
ElementRows ==
    << [Storey |-> "Storey_01", Type |-> "IfcSlab", Name |-> "slab_a"],
       [Storey |-> "Storey_01", Type |-> "IfcWall", Name |-> "wall_a"],
       [Storey |-> "Storey_02", Type |-> "IfcSlab", Name |-> "slab_b"],
       [Storey |-> "Storey_02", Type |-> "IfcWall", Name |-> "wall_b"] >>

\* self.elements_data: the rows of the elements that carry a Custom_Mesh
RECURSIVE rows_with_mesh(_, _)
rows_with_mesh(has_mesh, n) ==
    IF n > Len(ElementRows) THEN <<>>
    ELSE (IF has_mesh[n] THEN << ElementRows[n] >> ELSE <<>>) \o rows_with_mesh(has_mesh, n + 1)

\* the placeholder entry of the element dropdown
SelectElement == <<"-- Select Element --">>

\* f"{row['Storey']}/{row['Type']}/{row['Name']}"
row_full_name(row) == <<row.Storey, row.Type, row.Name>>

\* get_elements_table: the rows that pass both filters, in order
get_elements_table(rows, storey_filter, type_filter) ==
    SelectSeq(rows,
              LAMBDA row : /\ storey_filter = "All" \/ row.Storey = storey_filter
                           /\ type_filter = "All" \/ row.Type = type_filter)

\* filter_elements: the display columns of the filtered table
filter_elements(rows, storey, ifc_type) ==
    get_elements_table(rows, storey, ifc_type)

\* the elements_table.select handler: evt.index[0] against the DataFrame handed in
select_from_table(index, df) ==
    IF index < Len(df) THEN row_full_name(df[index + 1]) ELSE SelectElement

InitGradio ==
    /\ pc = "idle"
    /\ \E has_mesh \in [1..Len(ElementRows) -> BOOLEAN] :
          LET rows == rows_with_mesh(has_mesh, 1)
          IN  gradio = [elements_data |-> rows,
                        elements_state |-> rows,
                        elements_table |-> filter_elements(rows, "All", "All"),
                        storey_dropdown |-> "All", type_dropdown |-> "All",
                        element_dropdown |-> SelectElement,
                        selected_row |-> None]
    /\ viewer = None /\ table_ui = None /\ xform = None
    /\ IdleOthersOfViewer

\* storey_dropdown.change: filter_elements -> elements_table
StoreyDropdownChange ==
    /\ gradio # None
    /\ \E storey \in FilterStoreys \ {gradio.storey_dropdown} :
          gradio' = [gradio EXCEPT
                       !.storey_dropdown = storey,
                       !.elements_table = filter_elements(gradio.elements_data, storey,
                                                          gradio.type_dropdown),
                       !.selected_row = None]
    /\ UNCHANGED <<pc, viewer, table_ui, xform, OtherVarsOfViewer>>

\* type_dropdown.change: filter_elements -> elements_table
TypeDropdownChange ==
    /\ gradio # None
    /\ \E ifc_type \in FilterTypes \ {gradio.type_dropdown} :
          gradio' = [gradio EXCEPT
                       !.type_dropdown = ifc_type,
                       !.elements_table = filter_elements(gradio.elements_data,
                                                          gradio.storey_dropdown, ifc_type),
                       !.selected_row = None]
    /\ UNCHANGED <<pc, viewer, table_ui, xform, OtherVarsOfViewer>>

\* elements_table.select: the user clicks a row of the displayed table; the
\* handler is given elements_state and writes element_dropdown
ElementsTableSelect ==
    /\ gradio # None
    /\ \E index \in 0..(Len(gradio.elements_table) - 1) :
          gradio' = [gradio EXCEPT
                       !.element_dropdown = select_from_table(index, gradio.elements_state),
                       !.selected_row = <<index>>]
    /\ UNCHANGED <<pc, viewer, table_ui, xform, OtherVarsOfViewer>>

NextGradio ==
    \/ StoreyDropdownChange
    \/ TypeDropdownChange
    \/ ElementsTableSelect

SpecGradio == InitGradio /\ [][NextGradio]_vars

\* C29: after any sequence of storey and type filter changes, clicking row i of
\* the displayed elements table sets the selected element to the element shown in
\* row i of that displayed (filtered) table, or to the placeholder when i is out
\* of range.
C29_SelectsDisplayedRow ==
    (gradio # None /\ gradio.selected_row # None) =>
        gradio.element_dropdown =
            IF gradio.selected_row[1] < Len(gradio.elements_table)
            THEN row_full_name(gradio.elements_table[gradio.selected_row[1] + 1])
            ELSE SelectElement

\* ---------------------------------------------------------------------------
\* GeometryExtractor.transform_coordinates
\* ---------------------------------------------------------------------------

\* scipy's Rotation.from_quat(quat).as_matrix(): quat is read scalar-last,
\* (x, y, z, w), and normalized; n2 is its squared norm
from_quat(quat) ==
    LET x == quat[1]
        y == quat[2]
        z == quat[3]
        w == quat[4]
        n2 == x * x + y * y + z * z + w * w
    IN  << << (n2 - 2 * (y * y + z * z)) \div n2, (2 * (x * y - z * w)) \div n2,
              (2 * (x * z + y * w)) \div n2 >>,
           << (2 * (x * y + z * w)) \div n2, (n2 - 2 * (x * x + z * z)) \div n2,
              (2 * (y * z - x * w)) \div n2 >>,
           << (2 * (x * z - y * w)) \div n2, (2 * (y * z + x * w)) \div n2,
              (n2 - 2 * (x * x + y * y)) \div n2 >> >>

\* rot.apply(vertex)
rot_apply(rot, v) ==
    << rot[1][1] * v[1] + rot[1][2] * v[2] + rot[1][3] * v[3],
       rot[2][1] * v[1] + rot[2][2] * v[2] + rot[2][3] * v[3],
       rot[3][1] * v[1] + rot[3][2] * v[2] + rot[3][3] * v[3] >>

\* if rotation and any(rotation.values())
has_rotation(rotation) ==
    /\ rotation # None
    /\ rotation.qw # 0 \/ rotation.qx # 0 \/ rotation.qy # 0 \/ rotation.qz # 0

transform_coordinates(vertices, rotation, translation) ==
    [n \in 1..Len(vertices) |->
        LET v == IF has_rotation(rotation)
                 THEN rot_apply(from_quat(<<rotation.qw, rotation.qx, rotation.qy,
                                            rotation.qz>>), vertices[n])
                 ELSE vertices[n]
        IN  << v[1] + translation.x, v[3] + translation.z, v[2] + translation.y >>]

\* quaternions whose rotation matrix has integer entries; None is the empty dict
Quaternions ==
    { [qw |-> w, qx |-> x, qy |-> y, qz |-> z] :
          w \in -1..1, x \in -1..1, y \in -1..1, z \in -1..1 }

Rotations ==
    { q \in Quaternions :
          q.qw * q.qw + q.qx * q.qx + q.qy * q.qy + q.qz * q.qz \in {0, 1, 2, 4} }

Translations == { [x |-> 0, y |-> 0, z |-> 0], [x |-> 10, y |-> 20, z |-> 30] }

MeshCoordinates == << <<1, 2, 3>>, <<0, -4, 5>>, <<7, 0, 0>> >>

InitTransform ==
    /\ pc = "idle"
    /\ \E rotation \in Rotations \cup {None}, translation \in Translations :
          xform = [vertices |-> MeshCoordinates, rotation |-> rotation,
                   translation |-> translation, result |-> None]
    /\ viewer = None /\ table_ui = None /\ gradio = None
    /\ IdleOthersOfViewer

\* add_mesh_from_element calls transform_coordinates on the mesh's coordinates
TransformCoordinates ==
    /\ pc = "idle"
    /\ xform # None
    /\ xform' = [xform EXCEPT !.result = transform_coordinates(xform.vertices, xform.rotation,
                                                               xform.translation)]
    /\ pc' = "transformed"
    /\ UNCHANGED <<viewer, table_ui, gradio, OtherVarsOfViewer>>

NextTransform == TransformCoordinates

SpecTransform == InitTransform /\ [][NextTransform]_vars

IdentityQuaternion == [qw |-> 1, qx |-> 0, qy |-> 0, qz |-> 0]

\* C30: transform_coordinates applies no rotation when given the identity
\* quaternion (qw = 1, qx = qy = qz = 0): every vertex (x, y, z) is mapped to
\* (x + t.x, z + t.z, y + t.y), as when the rotation is empty or all-zero.
C30_IdentityQuaternionOnlySwaps ==
    (pc = "transformed" /\ xform.rotation = IdentityQuaternion) =>
        \A n \in 1..Len(xform.vertices) :
            xform.result[n] = << xform.vertices[n][1] + xform.translation.x,
                                 xform.vertices[n][3] + xform.translation.z,
                                 xform.vertices[n][2] + xform.translation.y >>

====
